---- MODULE Spec2Model ----
(***************************************************************************)
(* A model of the TalentLMS API client (py-talentlms).                     *)
(*                                                                         *)
(* The client is an object holding a base URL and Basic-Auth credentials.  *)
(* Every public operation builds at most one HTTP request, hands it to the *)
(* transport, parses the JSON body of the response and either returns the  *)
(* parsed value or raises.  Two generations of the request helpers exist:  *)
(* api._get/_post with exceptions.raise_error (talentlms/api.py) and       *)
(* api.get/post with its own raise_error (talentlms/talentlms.py).         *)
(*                                                                         *)
(* Python strings are TLA+ strings; a character is a string of length 1.   *)
(* Python scalars are tagged records of one shape (PyStr, PyInt, PyBool,   *)
(* PyNone).  A dict is the sequence of its <<key, value>> items in         *)
(* insertion order, with distinct keys.                                    *)
(*                                                                         *)
(* Spec has one caller, whose calls follow one another; SpecC has several  *)
(* callers on one client, whose calls interleave.                          *)
(***************************************************************************)
EXTENDS Integers, Sequences, FiniteSets, TLC

VARIABLES
    init_args,  \* the arguments the constructor was called with
    api_url,    \* self.api_url
    auth,       \* self.auth
    pc,         \* "idle": no call in progress; "done": a call has just ended
    call,       \* the public operation called last and its arguments
    resp,       \* the response the transport gave to that call
    sent,       \* the HTTP requests that call issued, in order
    outcome,    \* how that call ended: a returned value or a raised exception
    caller_mapping, \* the mapping the caller passed to that call, as the caller
                    \* finds it after the call
    failed_before,  \* a call made on this client earlier ended by raising
    threads     \* the frames of the callers that use the client concurrently

vars == <<init_args, api_url, auth, pc, call, resp, sent, outcome,
          caller_mapping, failed_before, threads>>

(***************************************************************************)
(* Bounds of the model.                                                    *)
(***************************************************************************)
\* the largest number of items of a caller-supplied parameter mapping
MaxParams == 2
\* the largest number of keyword arguments passed to create_course/create_group
MaxKwargs == 2
\* the number of callers that use one client concurrently
NThreads == 2

(***************************************************************************)
(* Python values.                                                          *)
(***************************************************************************)
PyStr(s) == [t |-> "str", s |-> s, n |-> 0]
PyInt(n) == [t |-> "int", s |-> "", n |-> n]
PyBool(b) == [t |-> "bool", s |-> "", n |-> IF b THEN 1 ELSE 0]
PyNone == [t |-> "NoneType", s |-> "", n |-> 0]

\* a dict (a sequence of <<key, value>> items) or None, as one shape
Dict(items) == [isNone |-> FALSE, items |-> items]
NoDict == [isNone |-> TRUE, items |-> <<>>]

\* the printable ASCII characters in code-point order, from chr(32) to chr(126)
\* (the grave accent, which a TLA+ string cannot hold, is left as a placeholder)
Ascii ==
    << " ", "!", "\"", "#", "$", "%", "&", "'", "(", ")", "*", "+", ",", "-", ".", "/",
       "0", "1", "2", "3", "4", "5", "6", "7", "8", "9", ":", ";", "<", "=", ">", "?",
       "@", "A", "B", "C", "D", "E", "F", "G", "H", "I", "J", "K", "L", "M", "N", "O",
       "P", "Q", "R", "S", "T", "U", "V", "W", "X", "Y", "Z", "[", "\\", "]", "^", "_",
       "chr(96)", "a", "b", "c", "d", "e", "f", "g", "h", "i", "j", "k", "l", "m", "n", "o",
       "p", "q", "r", "s", "t", "u", "v", "w", "x", "y", "z", "{", "|", "}", "~" >>

\* ord(c) of a printable ASCII character
ord(c) == 31 + (CHOOSE i \in 1..Len(Ascii) : Ascii[i] = c)

\* s[i] of a Python string, 1-based
CharAt(s, i) == SubSeq(s, i, i)

\* the characters of a string, as a set
Chars(s) == {CharAt(s, i) : i \in 1..Len(s)}

\* a < b on Python strings: code point by code point, a proper prefix first
RECURSIVE str_lt(_, _)
str_lt(a, b) ==
    IF Len(b) = 0 THEN FALSE
    ELSE IF Len(a) = 0 THEN TRUE
    ELSE IF CharAt(a, 1) = CharAt(b, 1)
         THEN str_lt(SubSeq(a, 2, Len(a)), SubSeq(b, 2, Len(b)))
         ELSE ord(CharAt(a, 1)) < ord(CharAt(b, 1))

\* decimal digits of a natural number
RECURSIVE digits(_)
digits(n) ==
    IF n < 10 THEN CharAt("0123456789", n + 1)
    ELSE digits(n \div 10) \o CharAt("0123456789", (n % 10) + 1)

\* str(v) of a Python scalar
str(v) ==
    CASE v.t = "str" -> v.s
      [] v.t = "int" -> IF v.n < 0 THEN "-" \o digits(0 - v.n) ELSE digits(v.n)
      [] v.t = "bool" -> IF v.n = 1 THEN "True" ELSE "False"
      [] OTHER -> "None"

\* urllib.parse: the characters quote() never escapes
ALWAYS_SAFE ==
    Chars("ABCDEFGHIJKLMNOPQRSTUVWXYZabcdefghijklmnopqrstuvwxyz0123456789_.-~")

\* '%XX' of a character, upper-case hexadecimal
pct(c) ==
    "%" \o CharAt("0123456789ABCDEF", (ord(c) \div 16) + 1)
        \o CharAt("0123456789ABCDEF", (ord(c) % 16) + 1)

\* urllib.parse.quote(string, safe)
RECURSIVE quote(_, _)
quote(string, safe) ==
    IF Len(string) = 0 THEN ""
    ELSE LET c == CharAt(string, 1)
             q == IF c \in ALWAYS_SAFE \cup Chars(safe) THEN c ELSE pct(c)
         IN q \o quote(SubSeq(string, 2, Len(string)), safe)

\* string.replace(' ', '+')
RECURSIVE replace_space(_)
replace_space(string) ==
    IF Len(string) = 0 THEN ""
    ELSE (IF CharAt(string, 1) = " " THEN "+" ELSE CharAt(string, 1))
         \o replace_space(SubSeq(string, 2, Len(string)))

\* a quote_plus that ignores its safe argument
quote_plus_nosafe(string, safe) ==
    IF " " \in Chars(string)
    THEN replace_space(quote(string, " "))
    ELSE quote(string, "")

\* a quote_plus that leaves a plus sign as it is
quote_plus_keeps_plus(string, safe) ==
    IF " " \in Chars(string)
    THEN replace_space(quote(string, safe \o " +"))
    ELSE quote(string, safe \o "+")

\* urllib.parse.quote_plus(string, safe)
quote_plus(string, safe) ==
    IF " " \in Chars(string)
    THEN replace_space(quote(string, safe \o " "))
    ELSE quote(string, safe)

\* list.insert keeping a sorted list sorted
RECURSIVE insort(_, _)
insort(x, l) ==
    IF Len(l) = 0 THEN <<x>>
    ELSE IF str_lt(Head(l), x) THEN <<Head(l)>> \o insort(x, Tail(l))
    ELSE <<x>> \o l

\* a sort that leaves the list as it is
sort_noop(l) == l

\* list.sort() of a list of strings
RECURSIVE sort(_)
sort(l) == IF Len(l) = 0 THEN <<>> ELSE insort(Head(l), sort(Tail(l)))

\* sep.join(l)
RECURSIVE join(_, _)
join(sep, l) ==
    IF Len(l) = 0 THEN ""
    ELSE IF Len(l) = 1 THEN l[1]
    ELSE l[1] \o sep \o join(sep, Tail(l))

(***************************************************************************)
(* Parsed JSON.  A member or element of the parsed value is a nested value *)
(* (VStr, VInt, VNone, VList, VDict) whose own members are strings; the    *)
(* parsed value itself is a JDict, JList, JStr, JInt or JNone.             *)
(***************************************************************************)
VStr(s) == [t |-> "str", s |-> s, members |-> <<>>]
VInt(s) == [t |-> "int", s |-> s, members |-> <<>>]
VNone == [t |-> "NoneType", s |-> "", members |-> <<>>]
VList == [t |-> "list", s |-> "", members |-> <<>>]
VDict(members) == [t |-> "dict", s |-> "", members |-> members]

JDict(members) == [t |-> "dict", s |-> "", members |-> members, elems |-> <<>>]
JList(elems) == [t |-> "list", s |-> "", members |-> <<>>, elems |-> elems]
JStr(s) == [t |-> "str", s |-> s, members |-> <<>>, elems |-> <<>>]
JInt(s) == [t |-> "int", s |-> s, members |-> <<>>, elems |-> <<>>]
JNone == [t |-> "NoneType", s |-> "", members |-> <<>>, elems |-> <<>>]
\* a body that is not JSON: json.loads raises on it
NotJson == [t |-> "invalid", s |-> "", members |-> <<>>, elems |-> <<>>]

\* key in d, for the items of a dict
has_key(items, key) == \E i \in 1..Len(items) : items[i][1] = key

\* what d[key] gives for a key that is not in the dict: it raises KeyError
Missing == [t |-> "KeyError", s |-> "", members |-> <<>>]

\* d[key] of a dict of nested values
lookup(items, key) ==
    IF has_key(items, key)
    THEN items[CHOOSE i \in 1..Len(items) : items[i][1] = key][2]
    ELSE Missing

\* sub in string, for Python strings
is_substring(sub, string) ==
    \E i \in 1..(Len(string) - Len(sub) + 1) : SubSeq(string, i, i + Len(sub) - 1) = sub

(***************************************************************************)
(* The transport's answer to one request: it raised, or it gave a response *)
(* with a status flag (resp.ok) and a body (resp.text, here parsed).       *)
(***************************************************************************)
Response(ok, body) == [raised |-> FALSE, ok |-> ok, body |-> body]
TransportError == [raised |-> TRUE, ok |-> FALSE, body |-> JNone]
NoResponse == [raised |-> FALSE, ok |-> FALSE, body |-> NotJson]

\* an HTTP request handed to the transport
Request(verb, url, data, a) == [verb |-> verb, url |-> url, data |-> data, auth |-> a]

(***************************************************************************)
(* How a call ends.                                                        *)
(***************************************************************************)
\* the second argument of raise_error: (api_method, api_params) or api_params
RequestParams(api_method, api_params) ==
    [tuple |-> TRUE, api_method |-> api_method, api_params |-> api_params]
BareParams(api_params) ==
    [tuple |-> FALSE, api_method |-> "", api_params |-> api_params]
NoRequestParams == [tuple |-> FALSE, api_method |-> "", api_params |-> NoDict]

Returned(value) ==
    [kind |-> "return", exc |-> "", message |-> "",
     request_params |-> NoRequestParams, value |-> value]
\* a TalentLMSError (sub)class raised with (msg, request_params)
Raised(exc, msg, request_params) ==
    [kind |-> "raise", exc |-> exc, message |-> msg,
     request_params |-> request_params, value |-> JNone]
\* an exception of the language or of a library
Threw(exc) == Raised(exc, "", NoRequestParams)
\* an exception of the language raised by the client's own code, with its text
ThrewMsg(exc, msg) == Raised(exc, msg, NoRequestParams)
NoOutcome ==
    [kind |-> "none", exc |-> "", message |-> "",
     request_params |-> NoRequestParams, value |-> JNone]

\* what a helper or operation did: the requests it issued and how it ended
Result(requests, out) == [sent |-> requests, outcome |-> out]

(***************************************************************************)
(* exceptions.py                                                           *)
(***************************************************************************)
exc_map ==
    ("The requested branch does not exist" :> "BranchDoesNotExistError") @@
    ("The requested category does not exist" :> "CategoryDoesNotExistError") @@
    ("The requested course does not exist" :> "CourseDoesNotExistError") @@
    ("The requested course is already a member of this branch" :> "CourseExistsError") @@
    ("The requested course is already a member of this group" :> "CourseExistsError") @@
    ("There is no group with such key" :> "GroupDoesNotExistError") @@
    ("The requested group does not exist" :> "GroupDoesNotExistError") @@
    ("Invalid arguments provided" :> "InvalidArgumentsError") @@
    ("The requested API action does not exist" :> "InvalidRequestError") @@
    ("Your login or password is incorrect. Please try again, making sure that CAPS LOCK key is off" :> "PasswordIncorrectError") @@
    ("The requested unit does not exist" :> "UnitDoesNotExistError") @@
    ("The requested user is already a member of this branch" :> "UserAlreadyEnrolledError") @@
    ("The requested user is already a member of this group" :> "UserAlreadyEnrolledError") @@
    ("The requested user is already enrolled in this course" :> "UserAlreadyEnrolledError") @@
    ("A user with the same email address already exists" :> "UserAlreadyExistsError") @@
    ("A user with the same login already exists" :> "UserAlreadyExistsError") @@
    ("The requested user is no longer available" :> "UserDeletedError") @@
    ("The requested user does not exist" :> "UserDoesNotExistError") @@
    ("Your account is inactive. Please activate the account using the instructions sent to you via e-mail. If you did not receive the e-mail, check your spam folder." :> "UserInactiveError") @@
    ("The requested user is not a member of this branch" :> "UserNotEnrolledError") @@
    ("The requested user is not a member of this group" :> "UserNotEnrolledError") @@
    ("The requested user is not enrolled in this course" :> "UserNotEnrolledError") @@
    ("User does not have a progress registered for the survey" :> "UserNotEnrolledError") @@
    ("User does not have a progress registered for the test" :> "UserNotEnrolledError") @@
    ("Password is not strong enough (should have at least (1) upper case letter, at least (1) lower case letter, at least (1) number, at least (8) characters in length)" :> "WeakPasswordError")

\* a raise_error that always raises the generic kind
raise_error_generic(message, params) == Raised("TalentLMSError", message, params)

\* a raise_error that keeps the message and drops the parameters
raise_error_drops_params(message, params) ==
    LET e == IF message \in DOMAIN exc_map THEN exc_map[message] ELSE "TalentLMSError"
    IN Raised(e, message, NoRequestParams)

\* exceptions.raise_error(message, params)
raise_error(message, params) ==
    LET e == IF message \in DOMAIN exc_map THEN exc_map[message] ELSE "TalentLMSError"
    IN Raised(e, message, params)

\* the classes exceptions.py defines below TalentLMSError
Subclasses ==
    {"InvalidRequestError", "InvalidArgumentsError", "UserAlreadyExistsError",
     "UserAlreadyEnrolledError", "UserNotEnrolledError", "UserDeletedError",
     "UserDoesNotExistError", "UserInactiveError", "WeakPasswordError",
     "PasswordIncorrectError", "CourseExistsError", "CourseDoesNotExistError",
     "CategoryDoesNotExistError", "GroupDoesNotExistError", "BranchDoesNotExistError",
     "UnitDoesNotExistError"}

\* the base class of an exception of the language or of a library ("" for
\* BaseException, which has none)
builtin_base(cls) ==
    CASE cls \in {"LookupError", "TypeError", "ValueError", "AttributeError",
                  "RuntimeError", "OSError"} -> "Exception"
      [] cls \in {"KeyError", "IndexError"} -> "LookupError"
      [] cls = "NotImplementedError" -> "RuntimeError"
      [] cls = "JSONDecodeError" -> "ValueError"
      [] cls = "ConnectionError" -> "OSError"
      [] cls = "Exception" -> "BaseException"
      [] OTHER -> ""

\* a hierarchy in which UserDoesNotExistError derives from Exception
base_detached(cls) ==
    IF cls = "UserDoesNotExistError" THEN "Exception"
    ELSE IF cls \in Subclasses THEN "TalentLMSError"
    ELSE IF cls = "TalentLMSError" THEN "Exception"
    ELSE builtin_base(cls)

\* the base class of cls, as the class statements of exceptions.py give it
base(cls) ==
    IF cls \in Subclasses THEN "TalentLMSError"
    ELSE IF cls = "TalentLMSError" THEN "Exception"
    ELSE builtin_base(cls)

\* the base class of cls, as the class statements of talentlms.py give it
base_talentlms(cls) ==
    IF cls \in Subclasses \ {"UserDeletedError", "UnitDoesNotExistError"}
    THEN "TalentLMSError"
    ELSE IF cls = "TalentLMSError" THEN "Exception"
    ELSE builtin_base(cls)

\* issubclass(cls, other) in the hierarchy of exceptions.py: what decides
\* whether `except other` handles an exception of class cls
RECURSIVE issubclass(_, _)
issubclass(cls, other) ==
    IF cls = other THEN TRUE
    ELSE IF base(cls) = "" THEN FALSE
    ELSE issubclass(base(cls), other)

\* issubclass(cls, other) in the hierarchy of talentlms.py
RECURSIVE issubclass_talentlms(_, _)
issubclass_talentlms(cls, other) ==
    IF cls = other THEN TRUE
    ELSE IF base_talentlms(cls) = "" THEN FALSE
    ELSE issubclass_talentlms(base_talentlms(cls), other)

(***************************************************************************)
(* talentlms.py: its own table and raise_error                             *)
(***************************************************************************)
exc_map_talentlms ==
    ("The requested API action does not exist" :> "InvalidRequestError") @@
    ("Invalid arguments provided" :> "InvalidArgumentsError") @@
    ("The requested user does not exist" :> "UserDoesNotExistError") @@
    ("A user with the same email address already exists" :> "UserAlreadyExistsError") @@
    ("A user with the same login already exists" :> "UserAlreadyExistsError") @@
    ("The requested user is already enrolled in this course" :> "UserAlreadyEnrolledError") @@
    ("The requested user is not enrolled in this course" :> "UserNotEnrolledError") @@
    ("Password is not strong enough (should have at least (1) upper case letter, at least (1) lower case letter, at least (1) number, at least (8) characters in length)" :> "WeakPasswordError") @@
    ("The requested course is already a member of this branch" :> "CourseExistsError") @@
    ("Your account is inactive. Please activate the account using the instructions sent to you via e-mail. If you did not receive the e-mail, check your spam folder." :> "UserInactiveError") @@
    ("Your login or password is incorrect. Please try again, making sure that CAPS LOCK key is off" :> "PasswordIncorrectError") @@
    ("The requested course does not exist" :> "CourseDoesNotExistError") @@
    ("The requested category does not exist" :> "CategoryDoesNotExistError") @@
    ("The requested group does not exist" :> "GroupDoesNotExistError") @@
    ("The requested branch does not exist" :> "BranchDoesNotExistError")

\* talentlms.raise_error(message, params)
raise_error_talentlms(message, params) ==
    LET e == IF message \in DOMAIN exc_map_talentlms
             THEN exc_map_talentlms[message] ELSE "TalentLMSError"
    IN Raised(e, message, params)

(***************************************************************************)
(* The request helpers.  Each takes the transport's answer r to the one    *)
(* request it issues and gives the requests issued and the outcome.        *)
(***************************************************************************)
\* the list built by the loop over api_params.items()
RECURSIVE encode_items(_)
encode_items(items) ==
    IF Len(items) = 0 THEN <<>>
    ELSE <<quote_plus(str(Head(items)[1]), "") \o ":" \o quote_plus(str(Head(items)[2]), "@")>>
         \o encode_items(Tail(items))

\* a test that also finds 'error' among the values of a dict
contains_error_values(result) ==
    CASE result.t = "dict" ->
            IF \E i \in 1..Len(result.members) :
                    \/ result.members[i][1] = "error"
                    \/ result.members[i][2] = VStr("error")
            THEN "yes" ELSE "no"
      [] result.t = "list" ->
            IF \E i \in 1..Len(result.elems) : result.elems[i] = VStr("error")
            THEN "yes" ELSE "no"
      [] result.t = "str" -> IF is_substring("error", result.s) THEN "yes" ELSE "no"
      [] OTHER -> "TypeError"

\* 'error' in result, for a result that is not None: "yes", "no", or the
\* TypeError of a value that is no container
contains_error(result) ==
    CASE result.t = "dict" -> IF has_key(result.members, "error") THEN "yes" ELSE "no"
      [] result.t = "list" ->
            IF \E i \in 1..Len(result.elems) : result.elems[i] = VStr("error")
            THEN "yes" ELSE "no"
      [] result.t = "str" -> IF is_substring("error", result.s) THEN "yes" ELSE "no"
      [] OTHER -> "TypeError"

\* a reading of the message that takes '' for a message that is missing:
\* result['error'].get('message', '')
error_message_defaults(result) ==
    IF result.t # "dict" THEN [exc |-> "TypeError", message |-> ""]
    ELSE LET error == lookup(result.members, "error")
         IN IF error = Missing THEN [exc |-> "KeyError", message |-> ""]
            ELSE IF error.t # "dict" THEN [exc |-> "TypeError", message |-> ""]
            ELSE IF ~has_key(error.members, "message")
            THEN [exc |-> "", message |-> ""]
            ELSE [exc |-> "", message |-> lookup(error.members, "message")]

\* result['error']['message'], for a result that 'error' is in: the message,
\* or the exception the two subscripts raise
error_message(result) ==
    IF result.t # "dict" THEN [exc |-> "TypeError", message |-> ""]
    ELSE LET error == lookup(result.members, "error")
         IN IF error = Missing THEN [exc |-> "KeyError", message |-> ""]
            ELSE IF error.t # "dict" THEN [exc |-> "TypeError", message |-> ""]
            ELSE IF ~has_key(error.members, "message")
            THEN [exc |-> "KeyError", message |-> ""]
            ELSE [exc |-> "", message |-> lookup(error.members, "message")]

\* a check of the response that raises on an HTTP failure status first
get_checks_status(api_method, api_params, r) ==
    LET params_list == IF api_params.isNone THEN <<>>
                       ELSE sort(encode_items(api_params.items))
        req == Request("GET", api_url \o "/" \o api_method \o "/" \o join(",", params_list),
                       NoDict, auth)
    IN Result(<<req>>,
              IF r.raised THEN Threw("ConnectionError")
              ELSE IF ~r.ok THEN Threw("HTTPError")
              ELSE IF r.body.t = "invalid" THEN Threw("JSONDecodeError")
              ELSE Returned(r.body))

\* a _get without the check for an error
get_unchecked(api_method, api_params, r) ==
    LET params_list == IF api_params.isNone THEN <<>>
                       ELSE sort(encode_items(api_params.items))
        req == Request("GET", api_url \o "/" \o api_method \o "/" \o join(",", params_list),
                       NoDict, auth)
    IN Result(<<req>>,
              IF r.raised THEN Threw("ConnectionError")
              ELSE IF r.body.t = "invalid" THEN Threw("JSONDecodeError")
              ELSE Returned(r.body))

\* a _get that asks a second time when the transport fails
get_retries(api_method, api_params, r) ==
    LET params_list == IF api_params.isNone THEN <<>>
                       ELSE sort(encode_items(api_params.items))
        req == Request("GET", api_url \o "/" \o api_method \o "/" \o join(",", params_list),
                       NoDict, auth)
    IN IF r.raised THEN Result(<<req, req>>, Threw("ConnectionError"))
       ELSE IF r.body.t = "invalid" THEN Result(<<req>>, Threw("JSONDecodeError"))
       ELSE IF r.body = JNone \/ contains_error(r.body) = "no"
       THEN Result(<<req>>, Returned(r.body))
       ELSE Result(<<req>>, raise_error(error_message(r.body).message,
                                        RequestParams(api_method, api_params)))

\* a _post that sends no credentials
post_without_auth(api_method, api_params, r) ==
    LET req == Request("POST", api_url \o "/" \o api_method, api_params,
                       [username |-> "", password |-> ""])
    IN Result(<<req>>,
              IF r.raised THEN Threw("ConnectionError")
              ELSE IF r.body.t = "invalid" THEN Threw("JSONDecodeError")
              ELSE Returned(r.body))

\* a _post that puts the parameters into the URL as _get does
post_with_segment(api_method, api_params, r) ==
    LET params_list == IF api_params.isNone THEN <<>>
                       ELSE sort(encode_items(api_params.items))
        req == Request("POST", api_url \o "/" \o api_method \o "/" \o join(",", params_list),
                       NoDict, auth)
    IN Result(<<req>>,
              IF r.raised THEN Threw("ConnectionError")
              ELSE IF r.body.t = "invalid" THEN Threw("JSONDecodeError")
              ELSE Returned(r.body))

\* a _post that turns every failure of the transport or the parser into a
\* TalentLMSError
post_wraps_errors(api_method, api_params, r) ==
    LET req == Request("POST", api_url \o "/" \o api_method, api_params, auth)
    IN Result(<<req>>,
              IF r.raised \/ r.body.t = "invalid"
              THEN Raised("TalentLMSError", "request failed",
                          RequestParams(api_method, api_params))
              ELSE Returned(r.body))

\* api._get(api_method, api_params=None) of api.py
_get(api_method, api_params, r) ==
    LET params_list == IF api_params.isNone THEN <<>>
                       ELSE sort(encode_items(api_params.items))
        get_params == join(",", params_list)
        req == Request("GET", api_url \o "/" \o api_method \o "/" \o get_params,
                       NoDict, auth)
        result == r.body
    IN Result(<<req>>,
              IF r.raised THEN Threw("ConnectionError")
              ELSE IF result.t = "invalid" THEN Threw("JSONDecodeError")
              ELSE IF result = JNone THEN Returned(result)
              ELSE IF contains_error(result) = "TypeError" THEN Threw("TypeError")
              ELSE IF contains_error(result) = "no" THEN Returned(result)
              ELSE IF error_message(result).exc # "" THEN Threw(error_message(result).exc)
              ELSE raise_error(error_message(result).message,
                               RequestParams(api_method, api_params)))

\* api._post(api_method, api_params=None) of api.py
_post(api_method, api_params, r) ==
    LET req == Request("POST", api_url \o "/" \o api_method, api_params, auth)
        result == r.body
    IN Result(<<req>>,
              IF r.raised THEN Threw("ConnectionError")
              ELSE IF result.t = "invalid" THEN Threw("JSONDecodeError")
              ELSE IF result = JNone THEN Returned(result)
              ELSE IF contains_error(result) = "TypeError" THEN Threw("TypeError")
              ELSE IF contains_error(result) = "no" THEN Returned(result)
              ELSE IF error_message(result).exc # "" THEN Threw(error_message(result).exc)
              ELSE raise_error(error_message(result).message,
                               RequestParams(api_method, api_params)))

\* api.get(api_method, api_params={}) of talentlms.py
get(api_method, api_params, r) ==
    IF api_params.isNone THEN Result(<<>>, Threw("AttributeError"))
    ELSE
    LET params_list == sort(encode_items(api_params.items))
        get_params == join(",", params_list)
        req == Request("GET", api_url \o "/" \o api_method \o "/" \o get_params,
                       NoDict, auth)
        result == r.body
    IN Result(<<req>>,
              IF r.raised THEN Threw("ConnectionError")
              ELSE IF result.t = "invalid" THEN Threw("JSONDecodeError")
              ELSE IF result = JNone THEN Returned(result)
              ELSE IF contains_error(result) = "TypeError" THEN Threw("TypeError")
              ELSE IF contains_error(result) = "no" THEN Returned(result)
              ELSE IF error_message(result).exc # "" THEN Threw(error_message(result).exc)
              ELSE raise_error_talentlms(error_message(result).message,
                                         BareParams(api_params)))

\* api.post(api_method, api_params={}) of talentlms.py
post(api_method, api_params, r) ==
    LET req == Request("POST", api_url \o "/" \o api_method, api_params, auth)
        result == r.body
    IN Result(<<req>>,
              IF r.raised THEN Threw("ConnectionError")
              ELSE IF result.t = "invalid" THEN Threw("JSONDecodeError")
              ELSE IF result = JNone THEN Returned(result)
              ELSE IF contains_error(result) = "TypeError" THEN Threw("TypeError")
              ELSE IF contains_error(result) = "no" THEN Returned(result)
              ELSE IF error_message(result).exc # "" THEN Threw(error_message(result).exc)
              ELSE raise_error_talentlms(error_message(result).message,
                                         BareParams(api_params)))

(***************************************************************************)
(* Conversions of arguments.                                               *)
(***************************************************************************)
\* str.isdecimal(): the characters int() reads as digits (of them, the ASCII ones)
isdecimal(s) == Len(s) > 0 /\ \A i \in 1..Len(s) : CharAt(s, i) \in Chars("0123456789")

\* str.isdigit(): the decimal characters, and the digits that are no decimals,
\* such as the superscript two
isdigit(s) == Len(s) > 0 /\ \A i \in 1..Len(s) : CharAt(s, i) \in Chars("0123456789²")

\* the number a string of decimal digits denotes
RECURSIVE number(_)
number(s) ==
    IF Len(s) = 0 THEN 0
    ELSE 10 * number(SubSeq(s, 1, Len(s) - 1))
         + (ord(CharAt(s, Len(s))) - ord("0"))

\* int(v): the integer, or the exception int() raises.  Strings are taken
\* without surrounding blanks, sign or underscores.
int(v) ==
    CASE v.t = "int" -> [exc |-> "", v |-> v]
      [] v.t = "bool" -> [exc |-> "", v |-> PyInt(v.n)]
      [] v.t = "str" -> IF isdecimal(v.s) THEN [exc |-> "", v |-> PyInt(number(v.s))]
                        ELSE [exc |-> "ValueError", v |-> PyNone]
      [] OTHER -> [exc |-> "TypeError", v |-> PyNone]

\* a float, held as its repr
PyFloat(s) == [t |-> "float", s |-> s, n |-> 0]

\* float(v): the float, or the exception float() raises.  Strings are taken
\* as digit strings only.
float(v) ==
    CASE v.t = "int" -> [exc |-> "", v |-> PyFloat(str(v) \o ".0")]
      [] v.t = "bool" -> [exc |-> "", v |-> PyFloat(str(PyInt(v.n)) \o ".0")]
      [] v.t = "float" -> [exc |-> "", v |-> v]
      [] v.t = "str" -> IF isdecimal(v.s) THEN [exc |-> "", v |-> PyFloat(v.s \o ".0")]
                        ELSE [exc |-> "ValueError", v |-> PyNone]
      [] OTHER -> [exc |-> "TypeError", v |-> PyNone]

\* kwarg_types[k](v) for a type named by kwarg_types
convert(type, v) ==
    CASE type = "str" -> [exc |-> "", v |-> PyStr(IF v.t = "float" THEN v.s ELSE str(v))]
      [] type = "float" -> float(v)
      [] OTHER -> int(v)

\* d[key] = value on the items of a dict: a new key goes last, a known key
\* keeps its place
setitem(items, key, value) ==
    IF has_key(items, key)
    THEN [i \in 1..Len(items) |-> IF items[i][1] = key THEN <<key, value>> ELSE items[i]]
    ELSE Append(items, <<key, value>>)

\* a merge in which a key of a keeps its value: {**b, **a} in the order of a
RECURSIVE merge_keeps(_, _)
merge_keeps(a, b) ==
    IF Len(b) = 0 THEN a
    ELSE merge_keeps(IF has_key(a, Head(b)[1]) THEN a
                     ELSE setitem(a, Head(b)[1], Head(b)[2]), Tail(b))

\* {**a, **b}
RECURSIVE merge(_, _)
merge(a, b) ==
    IF Len(b) = 0 THEN a ELSE merge(setitem(a, Head(b)[1], Head(b)[2]), Tail(b))

(***************************************************************************)
(* api.events (the same table in api.py and talentlms.py)                  *)
(***************************************************************************)
events ==
    ("user_login_user" :> "User log in") @@
    ("user_register_user" :> "User registration") @@
    ("user_self_register" :> "User self registration") @@
    ("user_delete_user" :> "User deletion") @@
    ("user_undelete_user" :> "Undelete user") @@
    ("user_property_change" :> "User update") @@
    ("user_create_payment" :> "User payment") @@
    ("user_upgrade_level" :> "User level") @@
    ("user_unlock_badge" :> "User badge") @@
    ("course_create_course" :> "Course creation") @@
    ("course_delete_course" :> "Course deletion") @@
    ("course_undelete_course" :> "Undelete course") @@
    ("course_property_change" :> "Course update") @@
    ("course_add_user" :> "Added user to course") @@
    ("course_remove_user" :> "Removed user from course") @@
    ("course_completion" :> "User completed course") @@
    ("course_failure" :> "User did not pass course") @@
    ("course_reset_user_progress" :> "Reset progress") @@
    ("branch_create_branch" :> "Branch creation") @@
    ("branch_delete_branch" :> "Branch deletion") @@
    ("branch_property_change" :> "Branch update") @@
    ("branch_add_user" :> "Added user to branch") @@
    ("branch_remove_user" :> "Removed user from branch") @@
    ("branch_add_course" :> "Added course to branch") @@
    ("branch_remove_course" :> "Removed course from branch") @@
    ("group_create_group" :> "Group creation") @@
    ("group_delete_group" :> "Group deletion") @@
    ("group_property_change" :> "Group update") @@
    ("group_add_user" :> "Added user to group") @@
    ("group_remove_user" :> "Removed user from group") @@
    ("group_add_course" :> "Added course to group") @@
    ("group_remove_course" :> "Removed course from group") @@
    ("certification_issue_certification" :> "Certification issued to user") @@
    ("certification_refresh_certification" :> "Certification renewed") @@
    ("certification_remove_certification" :> "Certification removed") @@
    ("certification_expire_certification" :> "Certification expired") @@
    ("unitprogress_test_completion" :> "Test completion") @@
    ("unitprogress_test_failed" :> "Test fail") @@
    ("unitprogress_survey_completion" :> "Survey completion") @@
    ("unitprogress_assignment_answered" :> "Assignment submission") @@
    ("unitprogress_assignment_graded" :> "Assignment grading") @@
    ("unitprogress_ilt_graded" :> "ILT grading") @@
    ("notification_create_notification" :> "Notification creation") @@
    ("notification_delete_notification" :> "Notification deletion") @@
    ("notification_update_notification" :> "Notification update") @@
    ("automation_create_automation" :> "Automation creation") @@
    ("automation_delete_automation" :> "Automation deletion") @@
    ("automation_update_automation" :> "Automation update") @@
    ("reports_create_custom_report" :> "Custom report creation") @@
    ("reports_delete_custom_report" :> "Custom report deletion") @@
    ("reports_update_custom_report" :> "Custom report update")

(***************************************************************************)
(* Public operations of api.py (and edit_user of talentlms.py).            *)
(***************************************************************************)
\* an edit_user that converts user_id before it looks at user_info
edit_user_converts_first(user_id, user_info, r) ==
    IF int(user_id).exc # "" THEN Result(<<>>, Threw(int(user_id).exc))
    ELSE IF user_info.isNone THEN Result(<<>>, Threw("TypeError"))
    ELSE IF Len(user_info.items) = 0
    THEN Result(<<>>, ThrewMsg("ValueError", "user_info must have at least one property"))
    ELSE _post("edituser",
               Dict(merge(<<<<PyStr("user_id"), int(user_id).v>>>>, user_info.items)), r)

\* api.edit_user(user_id, user_info) of api.py
edit_user(user_id, user_info, r) ==
    IF user_info.isNone THEN Result(<<>>, Threw("TypeError"))
    ELSE IF Len(user_info.items) = 0
    THEN Result(<<>>, ThrewMsg("ValueError", "user_info must have at least one property"))
    ELSE IF int(user_id).exc # "" THEN Result(<<>>, Threw(int(user_id).exc))
    ELSE _post("edituser",
               Dict(merge(<<<<PyStr("user_id"), int(user_id).v>>>>, user_info.items)), r)

\* api.edit_user(user_id, user_info) of talentlms.py
edit_user_talentlms(user_id, user_info, r) ==
    IF user_info.isNone THEN Result(<<>>, Threw("TypeError"))
    ELSE IF Len(user_info.items) = 0
    THEN Result(<<>>, ThrewMsg("ValueError", "user_info must have at least one property"))
    ELSE IF int(user_id).exc # "" THEN Result(<<>>, Threw(int(user_id).exc))
    ELSE post("edituser",
              Dict(merge(<<<<PyStr("user_id"), int(user_id).v>>>>, user_info.items)), r)

\* a get_timeline that leaves the validation of event_type to the server
get_timeline_unvalidated(event_type, r) ==
    _get("gettimeline", Dict(<<<<PyStr("event_type"), event_type>>>>), r)

\* api.get_timeline(event_type)
get_timeline(event_type, r) ==
    IF ~(event_type.t = "str" /\ event_type.s \in DOMAIN events)
    THEN Result(<<>>, ThrewMsg("ValueError", "not a valid event type: " \o str(event_type)))
    ELSE _get("gettimeline", Dict(<<<<PyStr("event_type"), event_type>>>>), r)

\* the loop over kwargs.items() of create_course and create_group: the data
\* dict it leaves, or the exception it raises
RECURSIVE kwargs_loop(_, _, _, _)
kwargs_loop(data, kwargs, allowed_kwargs, kwarg_types) ==
    IF Len(kwargs) = 0 THEN [exc |-> "", message |-> "", data |-> data]
    ELSE LET k == Head(kwargs)[1]
             v == Head(kwargs)[2]
         IN IF \A i \in 1..Len(allowed_kwargs) : allowed_kwargs[i] # k.s
            THEN [exc |-> "KeyError", message |-> "Unknown keyword argument: " \o k.s,
                  data |-> data]
            ELSE IF v = PyNone
            THEN kwargs_loop(data, Tail(kwargs), allowed_kwargs, kwarg_types)
            ELSE IF convert(kwarg_types[k.s], v).exc # ""
            THEN [exc |-> convert(kwarg_types[k.s], v).exc, message |-> "", data |-> data]
            ELSE kwargs_loop(setitem(data, k, convert(kwarg_types[k.s], v).v),
                             Tail(kwargs), allowed_kwargs, kwarg_types)

\* a loop over kwargs that skips the names it does not know
RECURSIVE kwargs_loop_skips(_, _, _, _)
kwargs_loop_skips(data, kwargs, allowed_kwargs, kwarg_types) ==
    IF Len(kwargs) = 0 THEN [exc |-> "", message |-> "", data |-> data]
    ELSE LET k == Head(kwargs)[1]
             v == Head(kwargs)[2]
         IN IF (\A i \in 1..Len(allowed_kwargs) : allowed_kwargs[i] # k.s) \/ v = PyNone
            THEN kwargs_loop_skips(data, Tail(kwargs), allowed_kwargs, kwarg_types)
            ELSE IF convert(kwarg_types[k.s], v).exc # ""
            THEN [exc |-> convert(kwarg_types[k.s], v).exc, message |-> "", data |-> data]
            ELSE kwargs_loop_skips(setitem(data, k, convert(kwarg_types[k.s], v).v),
                                   Tail(kwargs), allowed_kwargs, kwarg_types)

\* the data dict before the loop: name, then each optional argument given
initial_data(name, description, third_key, third) ==
    LET d1 == <<<<PyStr("name"), name>>>>
        d2 == IF description # PyNone THEN setitem(d1, PyStr("description"), description)
              ELSE d1
    IN IF third # PyNone THEN setitem(d2, PyStr(third_key), third) ELSE d2

\* a create_course whose loop skips unknown names
create_course_lenient(name, description, category_id, kwargs, r) ==
    LET allowed_kwargs == <<"code", "price", "time_limit", "creator_id">>
        kwarg_types == ("code" :> "str") @@ ("price" :> "float") @@
                       ("time_limit" :> "int") @@ ("creator_id" :> "int")
        loop == kwargs_loop_skips(initial_data(name, description, "category_id", category_id),
                                  kwargs, allowed_kwargs, kwarg_types)
    IN IF loop.exc # "" THEN Result(<<>>, ThrewMsg(loop.exc, loop.message))
       ELSE _post("createcourse", Dict(loop.data), r)

\* api.create_course(name, description=None, category_id=None, **kwargs)
create_course(name, description, category_id, kwargs, r) ==
    LET allowed_kwargs == <<"code", "price", "time_limit", "creator_id">>
        kwarg_types == ("code" :> "str") @@ ("price" :> "float") @@
                       ("time_limit" :> "int") @@ ("creator_id" :> "int")
        loop == kwargs_loop(initial_data(name, description, "category_id", category_id),
                            kwargs, allowed_kwargs, kwarg_types)
    IN IF loop.exc # "" THEN Result(<<>>, ThrewMsg(loop.exc, loop.message))
       ELSE _post("createcourse", Dict(loop.data), r)

\* api.create_group(name, description=None, key=None, **kwargs)
create_group(name, description, key, kwargs, r) ==
    LET allowed_kwargs == <<"price", "creator_id", "max_redemptions">>
        kwarg_types == ("price" :> "float") @@ ("creator_id" :> "int") @@
                       ("max_redemptions" :> "int")
        loop == kwargs_loop(initial_data(name, description, "key", key),
                            kwargs, allowed_kwargs, kwarg_types)
    IN IF loop.exc # "" THEN Result(<<>>, ThrewMsg(loop.exc, loop.message))
       ELSE _post("creategroup", Dict(loop.data), r)

\* api.users(search_term=None) of api.py
users(search_term, r) ==
    IF search_term = PyNone THEN _get("users", NoDict, r)
    ELSE IF search_term.t \notin {"int", "bool", "str"}
    THEN Result(<<>>, Threw("AttributeError"))
    ELSE IF search_term.t \in {"int", "bool"} \/ isdigit(search_term.s)
    THEN IF int(search_term).exc # "" THEN Result(<<>>, Threw(int(search_term).exc))
         ELSE _get("users", Dict(<< <<PyStr("id"), int(search_term).v>> >>), r)
    ELSE IF is_substring("@", search_term.s)
    THEN _get("users", Dict(<< <<PyStr("email"), search_term>> >>), r)
    ELSE _get("users", Dict(<< <<PyStr("username"), search_term>> >>), r)

\* api.users(search_term=None) of talentlms.py
users_talentlms(search_term, r) ==
    IF search_term = PyNone THEN get("users", Dict(<<>>), r)
    ELSE IF search_term.t \notin {"int", "bool", "str"}
    THEN Result(<<>>, Threw("AttributeError"))
    ELSE IF search_term.t \in {"int", "bool"} \/ isdigit(search_term.s)
    THEN IF int(search_term).exc # "" THEN Result(<<>>, Threw(int(search_term).exc))
         ELSE get("users", Dict(<< <<PyStr("id"), int(search_term).v>> >>), r)
    ELSE IF is_substring("@", search_term.s)
    THEN get("users", Dict(<< <<PyStr("email"), search_term>> >>), r)
    ELSE get("users", Dict(<< <<PyStr("username"), search_term>> >>), r)

\* api.user_signup(first_name, last_name, email, login, password, custom_fields=None)
user_signup(first_name, last_name, email, login, password, custom_fields, r) ==
    LET fields == IF custom_fields.isNone THEN <<>> ELSE custom_fields.items
    IN _post("usersignup",
             Dict(merge(<< <<PyStr("first_name"), first_name>>,
                           <<PyStr("last_name"), last_name>>,
                           <<PyStr("email"), email>>,
                           <<PyStr("login"), login>>,
                           <<PyStr("password"), password>> >>, fields)), r)

\* a user_set_status that leaves the validation of status to the server
user_set_status_unvalidated(user_id, status, r) ==
    IF int(user_id).exc # "" THEN Result(<<>>, Threw(int(user_id).exc))
    ELSE _get("usersetstatus",
              Dict(<< <<PyStr("user_id"), int(user_id).v>>, <<PyStr("status"), status>> >>), r)

\* api.user_set_status(user_id, status)
user_set_status(user_id, status, r) ==
    IF status \notin {PyStr("active"), PyStr("inactive")}
    THEN Result(<<>>, ThrewMsg("ValueError",
                               "Invalid status: " \o str(status)
                               \o ". Must be \"active\" or \"inactive\""))
    ELSE IF int(user_id).exc # "" THEN Result(<<>>, Threw(int(user_id).exc))
    ELSE _get("usersetstatus",
              Dict(<< <<PyStr("user_id"), int(user_id).v>>, <<PyStr("status"), status>> >>), r)

\* a create_branch that posts what it was given
create_branch_posts(name, branch_info, r) ==
    _post("createbranch", Dict(merge(<< <<PyStr("name"), name>> >>, branch_info)), r)

\* api.create_branch(name, **branch_info), one of the operations that are
\* not implemented: forgot_username, forgot_password, go_to_course, buy_course,
\* buy_category_courses and get_ilt_sessions end the same way
create_branch(name, branch_info, r) == Result(<<>>, Threw("NotImplementedError"))

\* api.forgot_username(email, domain_url)
forgot_username(email, domain_url, r) == Result(<<>>, Threw("NotImplementedError"))

\* api.forgot_password(username, domain_url, redirect_url)
forgot_password(username, domain_url, redirect_url, r) ==
    Result(<<>>, Threw("NotImplementedError"))

\* api.go_to_course(user_id, course_id, ...)
go_to_course(user_id, course_id, r) == Result(<<>>, Threw("NotImplementedError"))

\* api.buy_course(user_id, course_id, coupon=None)
buy_course(user_id, course_id, coupon, r) == Result(<<>>, Threw("NotImplementedError"))

\* api.buy_category_courses(user_id, category_id, coupon=None)
buy_category_courses(user_id, category_id, coupon, r) ==
    Result(<<>>, Threw("NotImplementedError"))

\* api.get_ilt_sessions(ilt_id)
get_ilt_sessions(ilt_id, r) == Result(<<>>, Threw("NotImplementedError"))

\* a courses that sends the identifier as it was given
courses_uncoerced(course_id, r) ==
    IF course_id = PyNone THEN _get("courses", NoDict, r)
    ELSE _get("courses", Dict(<< <<PyStr("id"), course_id>> >>), r)

\* api.courses(course_id=None); categories, groups and branches are the same
\* code with their own endpoint
courses(course_id, r) ==
    IF course_id = PyNone THEN _get("courses", NoDict, r)
    ELSE IF int(course_id).exc # "" THEN Result(<<>>, Threw(int(course_id).exc))
    ELSE _get("courses", Dict(<< <<PyStr("id"), int(course_id).v>> >>), r)

\* ['no', 'yes'][permanent]: the string, or the exception the subscript raises
no_yes(permanent) ==
    IF permanent.t \notin {"bool", "int"} THEN [exc |-> "TypeError", v |-> PyNone]
    ELSE IF permanent.n \in {0, -2} THEN [exc |-> "", v |-> PyStr("no")]
    ELSE IF permanent.n \in {1, -1} THEN [exc |-> "", v |-> PyStr("yes")]
    ELSE [exc |-> "IndexError", v |-> PyNone]

\* data['deleted_by_user_id'] = int(deleted_by_user_id), if it is given, and
\* the POST of data to the endpoint
post_with_deleted_by(endpoint, data, deleted_by_user_id, r) ==
    IF deleted_by_user_id = PyNone THEN _post(endpoint, Dict(data), r)
    ELSE IF int(deleted_by_user_id).exc # ""
    THEN Result(<<>>, Threw(int(deleted_by_user_id).exc))
    ELSE _post(endpoint,
               Dict(setitem(data, PyStr("deleted_by_user_id"), int(deleted_by_user_id).v)), r)

\* a delete_user whose permanent field is the flag itself
delete_user_raw_flag(user_id, deleted_by_user_id, permanent, r) ==
    IF int(user_id).exc # "" THEN Result(<<>>, Threw(int(user_id).exc))
    ELSE post_with_deleted_by("deleteuser",
                              << <<PyStr("user_id"), int(user_id).v>>,
                                 <<PyStr("permanent"), permanent>> >>,
                              deleted_by_user_id, r)

\* api.delete_user(user_id, deleted_by_user_id=None, permanent=False)
delete_user(user_id, deleted_by_user_id, permanent, r) ==
    IF int(user_id).exc # "" THEN Result(<<>>, Threw(int(user_id).exc))
    ELSE IF no_yes(permanent).exc # "" THEN Result(<<>>, Threw(no_yes(permanent).exc))
    ELSE post_with_deleted_by("deleteuser",
                              << <<PyStr("user_id"), int(user_id).v>>,
                                 <<PyStr("permanent"), no_yes(permanent).v>> >>,
                              deleted_by_user_id, r)

\* api.delete_user(user_id, deleted_by_user_id=None, permanent=False) of
\* talentlms.py
delete_user_talentlms(user_id, deleted_by_user_id, permanent, r) ==
    LET data == << <<PyStr("user_id"), int(user_id).v>>,
                   <<PyStr("permanent"), no_yes(permanent).v>> >>
    IN IF int(user_id).exc # "" THEN Result(<<>>, Threw(int(user_id).exc))
       ELSE IF no_yes(permanent).exc # "" THEN Result(<<>>, Threw(no_yes(permanent).exc))
       ELSE IF deleted_by_user_id = PyNone THEN post("deleteuser", Dict(data), r)
       ELSE IF int(deleted_by_user_id).exc # ""
       THEN Result(<<>>, Threw(int(deleted_by_user_id).exc))
       ELSE post("deleteuser",
                 Dict(setitem(data, PyStr("deleted_by_user_id"), int(deleted_by_user_id).v)),
                 r)

\* api.delete_course(course_id, deleted_by_user_id=None); delete_group and
\* delete_branch are the same code with their own endpoint and key
delete_course(course_id, deleted_by_user_id, r) ==
    IF int(course_id).exc # "" THEN Result(<<>>, Threw(int(course_id).exc))
    ELSE post_with_deleted_by("deletecourse", << <<PyStr("course_id"), int(course_id).v>> >>,
                              deleted_by_user_id, r)

\* api.add_user_to_course(user_id, course_id, role='learner')
add_user_to_course(user_id, course_id, role, r) ==
    IF int(user_id).exc # "" THEN Result(<<>>, Threw(int(user_id).exc))
    ELSE IF int(course_id).exc # "" THEN Result(<<>>, Threw(int(course_id).exc))
    ELSE _post("addusertocourse",
               Dict(<< <<PyStr("user_id"), int(user_id).v>>,
                       <<PyStr("course_id"), int(course_id).v>>,
                       <<PyStr("role"), role>> >>), r)

\* api.remove_user_from_course(user_id, course_id); the other operations on
\* two identifiers are the same code with their own endpoint and keys
remove_user_from_course(user_id, course_id, r) ==
    IF int(user_id).exc # "" THEN Result(<<>>, Threw(int(user_id).exc))
    ELSE IF int(course_id).exc # "" THEN Result(<<>>, Threw(int(course_id).exc))
    ELSE _get("removeuserfromcourse",
              Dict(<< <<PyStr("user_id"), int(user_id).v>>,
                      <<PyStr("course_id"), int(course_id).v>> >>), r)

\* a user_login that sends logout_redirect whether it is given or not
user_login_sends_none(login, password, logout_redirect, r) ==
    _post("userlogin", Dict(<< <<PyStr("login"), login>>, <<PyStr("password"), password>>,
                               <<PyStr("logout_redirect"), logout_redirect>> >>), r)

\* api.user_login(login, password, logout_redirect=None)
user_login(login, password, logout_redirect, r) ==
    LET data == << <<PyStr("login"), login>>, <<PyStr("password"), password>> >>
    IN _post("userlogin",
             Dict(IF logout_redirect # PyNone
                  THEN setitem(data, PyStr("logout_redirect"), logout_redirect)
                  ELSE data), r)

\* api.user_logout(user_id, next_url=None)
user_logout(user_id, next_url, r) ==
    LET data == << <<PyStr("user_id"), user_id>> >>
    IN _post("userlogout",
             Dict(IF next_url # PyNone THEN setitem(data, PyStr("next"), next_url) ELSE data),
             r)

\* f['name'] for an element f of the iterated response: the name, or the
\* exception the subscript raises
field_name(f) ==
    IF f.t # "dict" THEN [exc |-> "TypeError", name |-> ""]
    ELSE IF ~has_key(f.members, "name") THEN [exc |-> "KeyError", name |-> ""]
    ELSE [exc |-> "", name |-> lookup(f.members, "name")]

\* a comprehension that keeps the first record of a name
RECURSIVE comprehension_keeps_first(_, _)
comprehension_keeps_first(acc, fs) ==
    IF Len(fs) = 0 THEN [exc |-> "", items |-> acc]
    ELSE IF field_name(Head(fs)).exc # ""
    THEN [exc |-> field_name(Head(fs)).exc, items |-> acc]
    ELSE comprehension_keeps_first(
            IF has_key(acc, field_name(Head(fs)).name) THEN acc
            ELSE setitem(acc, field_name(Head(fs)).name, Head(fs)),
            Tail(fs))

\* {f['name']: f for f in custom_fields}, custom_fields iterated as fs: the
\* dict built, or the exception of the first element that raises
RECURSIVE comprehension(_, _)
comprehension(acc, fs) ==
    IF Len(fs) = 0 THEN [exc |-> "", items |-> acc]
    ELSE IF field_name(Head(fs)).exc # ""
    THEN [exc |-> field_name(Head(fs)).exc, items |-> acc]
    ELSE comprehension(setitem(acc, field_name(Head(fs)).name, Head(fs)), Tail(fs))

\* what iterating a value the helper returned yields: the elements of a list,
\* the keys of a dict, the characters of a string
iterate(result) ==
    CASE result.t = "list" -> [exc |-> "", fs |-> result.elems]
      [] result.t = "dict" ->
            [exc |-> "", fs |-> [i \in 1..Len(result.members) |-> VStr(result.members[i][1])]]
      [] result.t = "str" ->
            [exc |-> "", fs |-> [i \in 1..Len(result.s) |-> VStr(CharAt(result.s, i))]]
      [] OTHER -> [exc |-> "TypeError", fs |-> <<>>]

\* the two lines of get_custom_registration_fields, after the helper's result
fields_by_name(res) ==
    IF res.outcome.kind # "return" THEN res
    ELSE IF iterate(res.outcome.value).exc # ""
    THEN Result(res.sent, Threw(iterate(res.outcome.value).exc))
    ELSE IF comprehension(<<>>, iterate(res.outcome.value).fs).exc # ""
    THEN Result(res.sent, Threw(comprehension(<<>>, iterate(res.outcome.value).fs).exc))
    ELSE Result(res.sent,
                Returned(JDict(comprehension(<<>>, iterate(res.outcome.value).fs).items)))

\* api.get_custom_registration_fields() of api.py
get_custom_registration_fields(r) ==
    fields_by_name(_get("getcustomregistrationfields", NoDict, r))

\* api.get_custom_registration_fields() of talentlms.py
get_custom_registration_fields_talentlms(r) ==
    fields_by_name(get("getcustomregistrationfields", Dict(<<>>), r))

(***************************************************************************)
(* What a call leaves behind, besides its outcome.                         *)
(***************************************************************************)
\* an edit_user that stores user_id into the user_info it was given
mapping_after_in_place(c) ==
    IF c.op = "edit_user" /\ ~c.api_params.isNone /\ Len(c.api_params.items) > 0
       /\ int(c.user_id).exc = ""
    THEN Dict(setitem(c.api_params.items, PyStr("user_id"), int(c.user_id).v))
    ELSE c.api_params

\* the mapping the caller passed (api_params, user_info, custom_fields) after
\* the call c: the helpers read api_params.items() or hand api_params to the
\* transport, edit_user and user_signup build a new dict with {..., **mapping},
\* and user_signup's custom_fields = {} rebinds its own name; nothing stores
\* into the caller's mapping
mapping_after(c) == c.api_params

\* a client that keeps the endpoint of its last call in its base URL
client_after_keeps_endpoint(c, client) ==
    [client EXCEPT !.api_url = "https://example.talentlms.com/api/v1/" \o c.op]

\* the attributes of the client after the call c: self.api_url and self.auth
\* are assigned by __init__ and by nothing else
client_after(c, client) == client

(***************************************************************************)
(* The inputs the calls are made with.                                     *)
(***************************************************************************)
\* the parameters of the tests' setUp
test_data ==
    << <<PyStr("param_1"), PyStr("str_value:with/special.symbols")>>,
       <<PyStr("param_2"), PyInt(1)>>,
       <<PyStr("param_3"), PyBool(FALSE)>>,
       <<PyStr("param_4"), PyStr("user@example.com")>> >>

Methods == {"users", "test_api_method"}
ParamKeys == {PyStr("id"), PyStr("a b"), PyStr("a/b")}
ParamVals == {PyStr("j smith@example.com"), PyInt(40457), PyBool(FALSE)}

\* the items of the dicts of n items over ParamKeys and ParamVals, in every order
ItemSeqs(n) ==
    {q \in [1..n -> ParamKeys \X ParamVals] :
        \A i, j \in 1..n : i # j => q[i][1] # q[j][1]}

ParamDicts ==
    {NoDict}
    \cup {Dict(q) : q \in UNION {ItemSeqs(n) : n \in 0..MaxParams}}

CoreParams ==
    {NoDict, Dict(<<>>), Dict(<<<<PyStr("id"), PyInt(123456)>>>>),
     Dict(<< <<PyStr("e+mail %"), PyStr("50%+1 @x")>>, <<PyStr("a@b"), PyStr("@%40@")>> >>)}

\* the body {"error": {"type": ..., "message": m}}
ErrorBody(m) ==
    JDict(<< <<"error", VDict(<< <<"type", "invalid_request_error">>, <<"message", m>> >>)>> >>)

\* messages the server may send: every one of both tables, and others
Messages ==
    DOMAIN exc_map \cup DOMAIN exc_map_talentlms
    \cup {"the requested user does not exist", "The requested user does not exist ",
          " A user with the same login already exists", "The requested user does not exist.",
          "Rate limit exceeded", ""}

CoreBodies ==
    {JDict(<< <<"result", VStr("ok")>> >>),
     JList(<< VDict(<< <<"id", "1">> >>), VDict(<< <<"id", "2">> >>) >>),
     ErrorBody("The requested user does not exist"),
     ErrorBody("Rate limit exceeded")}

Bodies ==
    CoreBodies
    \cup {JDict(<< <<"id", VStr("40457")>>, <<"status", VStr("error")>> >>),
          JDict(<< <<"errors", VList>> >>),
          JDict(<<>>),
          JList(<<>>),
          JList(<< VStr("error") >>),
          JList(<< VStr("ok"), VStr("error") >>),
          JList(<< VStr("errors"), VDict(<< <<"error", "x">> >>) >>),
          JNone}
    \cup {ErrorBody(m) : m \in Messages}
    \cup {JDict(<< <<"result", VStr("ok")>>,
                   <<"error", VDict(<< <<"message", "Invalid arguments provided">> >>)>> >>),
          JDict(<< <<"error", VDict(<< <<"type", "invalid_request_error">> >>)>> >>),
          JDict(<< <<"error", VDict(<<>>)>> >>),
          JDict(<< <<"error", VStr("The requested user does not exist")>> >>),
          JDict(<< <<"error", VNone>> >>),
          JDict(<< <<"error", VList>> >>),
          JDict(<< <<"error", VInt("404")>> >>),
          JStr("ok"), JStr("an error occurred"), JInt("5"), NotJson}

CoreResponses == {Response(ok, b) : ok \in BOOLEAN, b \in CoreBodies} \cup {TransportError}
Responses == {Response(ok, b) : ok \in BOOLEAN, b \in Bodies} \cup {TransportError}

\* the (api_method, api_params, response) triples the helpers are called with
HelperInputs ==
    (Methods \X CoreParams \X Responses)
    \cup ({"users"} \X ParamDicts \X CoreResponses)
    \cup ({"test_api_method"} \X {Dict(test_data)} \X CoreResponses)

UserIds == {PyInt(40457), PyStr("40457"), PyStr("john"), PyNone}
UserInfos ==
    {NoDict, Dict(<<>>),
     Dict(<< <<PyStr("login"), PyStr("johnsmith")>> >>),
     Dict(<< <<PyStr("user_id"), PyInt(1)>>, <<PyStr("bio"), PyStr("x")>> >>)}

EventTypes ==
    {PyStr(e) : e \in DOMAIN events}
    \cup {PyStr("User_login_user"), PyStr("user_login_user "), PyStr("User log in"),
          PyStr("bogus"), PyStr(""), PyNone, PyInt(1)}

KwargNames ==
    {PyStr("code"), PyStr("price"), PyStr("time_limit"), PyStr("creator_id"),
     PyStr("max_redemptions"), PyStr("bogus")}
KwargVals == {PyNone, PyInt(5), PyStr("free")}

\* the keyword arguments of a call, in the order given: at most MaxKwargs of them
KwargSeqs ==
    UNION {{q \in [1..n -> KwargNames \X KwargVals] :
                \A i, j \in 1..n : i # j => q[i][1] # q[j][1]} : n \in 0..MaxKwargs}

SearchTerms ==
    {PyNone, PyInt(40457), PyInt(0), PyBool(TRUE), PyStr(""), PyStr("40457"), PyStr("007"),
     PyStr("12@3"), PyStr("-5"), PyStr("4 0"), PyStr("jsmith@example.com"),
     PyStr("john.smith"), PyStr("²"), PyStr("4²")}

Statuses ==
    {PyStr("active"), PyStr("inactive"), PyStr("Active"), PyStr("inactive "), PyStr(""),
     PyStr("deleted"), PyBool(TRUE), PyBool(FALSE), PyInt(1), PyNone}

CustomFields ==
    {NoDict, Dict(<<>>),
     Dict(<< <<PyStr("custom_field_1"), PyStr("Company LLC")>> >>),
     Dict(<< <<PyStr("custom_field_1"), PyStr("Company LLC")>>,
             <<PyStr("email"), PyStr("other@example.com")>> >>)}

\* identifiers as callers give them: integers, their digit strings, and
\* values int() refuses
Ids ==
    {PyNone, PyInt(40457), PyStr("40457"), PyInt(7), PyStr("007"), PyStr("john"),
     PyStr(""), PyBool(TRUE)}

DeletedBys == {PyNone, PyInt(1), PyStr("1"), PyStr("admin")}

Permanents == {PyBool(FALSE), PyBool(TRUE), PyInt(2), PyNone}

Roles == {PyStr("learner"), PyStr("instructor")}

Redirects == {PyNone, PyStr("https://www.example.com"), PyStr("")}

\* a custom field record of the server, by its name and type
Field(name, type) ==
    VDict(<< <<"key", "custom_field_1">>, <<"type", type>>, <<"name", name>> >>)

\* bodies the server answers getcustomregistrationfields with, and others
FieldBodies ==
    {JList(<<>>),
     JList(<< Field("Company", "text") >>),
     JList(<< Field("Company", "text"), Field("Size", "dropdown") >>),
     JList(<< Field("Company", "text"), Field("Size", "dropdown"),
              Field("Company", "dropdown") >>),
     JList(<< Field("Size", "text"), Field("Size", "dropdown"), Field("Size", "date") >>),
     JList(<< Field("Company", "text"), VDict(<< <<"key", "custom_field_2">> >>) >>),
     JList(<< VStr("ok") >>),
     JList(<< Field("Company", "text"), VStr("error") >>),
     JDict(<<>>),
     JDict(<< <<"result", VStr("ok")>> >>),
     JStr("ok"),
     JNone,
     ErrorBody("Rate limit exceeded")}

FieldResponses == {Response(ok, b) : ok \in BOOLEAN, b \in FieldBodies} \cup {TransportError}

Optionals == {<<PyNone, PyNone>>, <<PyStr("about"), PyNone>>,
              <<PyNone, PyStr("12")>>, <<PyStr("about"), PyStr("12")>>}

(***************************************************************************)
(* The state machine.                                                      *)
(***************************************************************************)
\* the arguments of a call, as one shape
Call(op) ==
    [op |-> op, api_method |-> "", api_params |-> NoDict, user_id |-> PyNone,
     event_type |-> PyNone, name |-> PyNone, description |-> PyNone, third |-> PyNone,
     kwargs |-> <<>>, search_term |-> PyNone, status |-> PyNone,
     course_id |-> PyNone, deleted_by_user_id |-> PyNone, permanent |-> PyNone,
     extra |-> PyNone]

\* the concurrent callers
Threads == 1..NThreads

\* the frame of a caller that is in no call
IdleFrame ==
    [pc |-> "idle", call |-> Call(""), sent |-> <<>>, resp |-> NoResponse,
     outcome |-> NoOutcome]

\* api.__init__(domain, api_key, ssl=True)
Init ==
    \E domain \in {"example.talentlms.com"}, api_key \in {"FAKE_API_KEY_HERE", "k3y:2"},
       ssl \in BOOLEAN :
        /\ init_args = [domain |-> domain, api_key |-> api_key, ssl |-> ssl]
        /\ api_url = (IF ssl THEN "https" ELSE "http") \o "://" \o domain \o "/api/v1"
        /\ auth = [username |-> api_key, password |-> ""]
        /\ pc = "idle"
        /\ call = Call("")
        /\ resp = NoResponse
        /\ sent = <<>>
        /\ outcome = NoOutcome
        /\ caller_mapping = NoDict
        /\ failed_before = FALSE
        /\ threads = [t \in Threads |-> IdleFrame]

\* a call c ends with result res, after the transport answered r if asked
Finish(c, res, r) ==
    /\ pc' = "done"
    /\ call' = c
    /\ sent' = res.sent
    /\ resp' = IF res.sent = <<>> THEN NoResponse ELSE r
    /\ outcome' = res.outcome
    /\ caller_mapping' = mapping_after(c)
    /\ api_url' = client_after(c, [api_url |-> api_url, auth |-> auth]).api_url
    /\ auth' = client_after(c, [api_url |-> api_url, auth |-> auth]).auth
    /\ UNCHANGED <<init_args, failed_before, threads>>

A_get ==
    /\ pc = "idle"
    /\ \E x \in HelperInputs :
        Finish([Call("_get") EXCEPT !.api_method = x[1], !.api_params = x[2]],
               _get(x[1], x[2], x[3]), x[3])

A_post ==
    /\ pc = "idle"
    /\ \E x \in HelperInputs :
        Finish([Call("_post") EXCEPT !.api_method = x[1], !.api_params = x[2]],
               _post(x[1], x[2], x[3]), x[3])

T_get ==
    /\ pc = "idle"
    /\ \E x \in HelperInputs :
        Finish([Call("get") EXCEPT !.api_method = x[1], !.api_params = x[2]],
               get(x[1], x[2], x[3]), x[3])

T_post ==
    /\ pc = "idle"
    /\ \E x \in HelperInputs :
        Finish([Call("post") EXCEPT !.api_method = x[1], !.api_params = x[2]],
               post(x[1], x[2], x[3]), x[3])

A_edit_user ==
    /\ pc = "idle"
    /\ \E u \in UserIds, info \in UserInfos, r \in CoreResponses :
        Finish([Call("edit_user") EXCEPT !.user_id = u, !.api_params = info],
               edit_user(u, info, r), r)

T_edit_user ==
    /\ pc = "idle"
    /\ \E u \in UserIds, info \in UserInfos, r \in CoreResponses :
        Finish([Call("edit_user_talentlms") EXCEPT !.user_id = u, !.api_params = info],
               edit_user_talentlms(u, info, r), r)

A_get_timeline ==
    /\ pc = "idle"
    /\ \E e \in EventTypes, r \in CoreResponses :
        Finish([Call("get_timeline") EXCEPT !.event_type = e], get_timeline(e, r), r)

A_create_course ==
    /\ pc = "idle"
    /\ \E o \in Optionals, kw \in KwargSeqs, r \in CoreResponses :
        Finish([Call("create_course") EXCEPT !.name = PyStr("Sample Course"),
                    !.description = o[1], !.third = o[2], !.kwargs = kw],
               create_course(PyStr("Sample Course"), o[1], o[2], kw, r), r)

A_create_group ==
    /\ pc = "idle"
    /\ \E o \in Optionals, kw \in KwargSeqs, r \in CoreResponses :
        Finish([Call("create_group") EXCEPT !.name = PyStr("Sample Group"),
                    !.description = o[1], !.third = o[2], !.kwargs = kw],
               create_group(PyStr("Sample Group"), o[1], o[2], kw, r), r)

A_users ==
    /\ pc = "idle"
    /\ \E st \in SearchTerms, r \in CoreResponses :
        Finish([Call("users") EXCEPT !.search_term = st], users(st, r), r)

T_users ==
    /\ pc = "idle"
    /\ \E st \in SearchTerms, r \in CoreResponses :
        Finish([Call("users_talentlms") EXCEPT !.search_term = st],
               users_talentlms(st, r), r)

A_user_signup ==
    /\ pc = "idle"
    /\ \E cf \in CustomFields, r \in CoreResponses :
        Finish([Call("user_signup") EXCEPT !.api_params = cf],
               user_signup(PyStr("John"), PyStr("Smith"), PyStr("jsmith@example.com"),
                           PyStr("john.smith"), PyStr("XXXXXXXX"), cf, r), r)

A_user_set_status ==
    /\ pc = "idle"
    /\ \E u \in UserIds, st \in Statuses, r \in CoreResponses :
        Finish([Call("user_set_status") EXCEPT !.user_id = u, !.status = st],
               user_set_status(u, st, r), r)

A_create_branch ==
    /\ pc = "idle"
    /\ \E kw \in {<<>>, << <<PyStr("description"), PyStr("about")>> >>}, r \in CoreResponses :
        Finish([Call("create_branch") EXCEPT !.name = PyStr("Sample Branch"), !.kwargs = kw],
               create_branch(PyStr("Sample Branch"), kw, r), r)

A_courses ==
    /\ pc = "idle"
    /\ \E c \in Ids, r \in CoreResponses :
        Finish([Call("courses") EXCEPT !.course_id = c], courses(c, r), r)

A_delete_user ==
    /\ pc = "idle"
    /\ \E u \in UserIds, d \in DeletedBys, p \in Permanents, r \in CoreResponses :
        Finish([Call("delete_user") EXCEPT !.user_id = u, !.deleted_by_user_id = d,
                                           !.permanent = p],
               delete_user(u, d, p, r), r)

T_delete_user ==
    /\ pc = "idle"
    /\ \E u \in UserIds, d \in DeletedBys, p \in Permanents, r \in CoreResponses :
        Finish([Call("delete_user_talentlms") EXCEPT !.user_id = u,
                    !.deleted_by_user_id = d, !.permanent = p],
               delete_user_talentlms(u, d, p, r), r)

A_delete_course ==
    /\ pc = "idle"
    /\ \E c \in Ids, d \in DeletedBys, r \in CoreResponses :
        Finish([Call("delete_course") EXCEPT !.course_id = c, !.deleted_by_user_id = d],
               delete_course(c, d, r), r)

A_add_user_to_course ==
    /\ pc = "idle"
    /\ \E u \in UserIds, c \in Ids, role \in Roles, r \in CoreResponses :
        Finish([Call("add_user_to_course") EXCEPT !.user_id = u, !.course_id = c,
                                                  !.extra = role],
               add_user_to_course(u, c, role, r), r)

A_remove_user_from_course ==
    /\ pc = "idle"
    /\ \E u \in UserIds, c \in Ids, r \in CoreResponses :
        Finish([Call("remove_user_from_course") EXCEPT !.user_id = u, !.course_id = c],
               remove_user_from_course(u, c, r), r)

A_user_login ==
    /\ pc = "idle"
    /\ \E redirect \in Redirects, r \in CoreResponses :
        Finish([Call("user_login") EXCEPT !.name = PyStr("john.smith"),
                                          !.description = PyStr("XXXXXXXX"),
                                          !.extra = redirect],
               user_login(PyStr("john.smith"), PyStr("XXXXXXXX"), redirect, r), r)

A_user_logout ==
    /\ pc = "idle"
    /\ \E u \in UserIds, next_url \in Redirects, r \in CoreResponses :
        Finish([Call("user_logout") EXCEPT !.user_id = u, !.extra = next_url],
               user_logout(u, next_url, r), r)

A_get_custom_registration_fields ==
    /\ pc = "idle"
    /\ \E r \in FieldResponses :
        Finish(Call("get_custom_registration_fields"), get_custom_registration_fields(r), r)

T_get_custom_registration_fields ==
    /\ pc = "idle"
    /\ \E r \in FieldResponses :
        Finish(Call("get_custom_registration_fields_talentlms"),
               get_custom_registration_fields_talentlms(r), r)

A_forgot_username ==
    /\ pc = "idle"
    /\ \E email \in {PyStr("jsmith@example.com"), PyNone}, r \in CoreResponses :
        Finish([Call("forgot_username") EXCEPT !.name = email],
               forgot_username(email, PyStr("example.talentlms.com"), r), r)

A_forgot_password ==
    /\ pc = "idle"
    /\ \E username \in {PyStr("john.smith"), PyNone}, r \in CoreResponses :
        Finish([Call("forgot_password") EXCEPT !.name = username],
               forgot_password(username, PyStr("example.talentlms.com"),
                               PyStr("https://www.example.com"), r), r)

A_go_to_course ==
    /\ pc = "idle"
    /\ \E u \in UserIds, c \in Ids, r \in CoreResponses :
        Finish([Call("go_to_course") EXCEPT !.user_id = u, !.course_id = c],
               go_to_course(u, c, r), r)

A_buy_course ==
    /\ pc = "idle"
    /\ \E u \in UserIds, c \in Ids, r \in CoreResponses :
        Finish([Call("buy_course") EXCEPT !.user_id = u, !.course_id = c],
               buy_course(u, c, PyNone, r), r)

A_buy_category_courses ==
    /\ pc = "idle"
    /\ \E u \in UserIds, c \in Ids, r \in CoreResponses :
        Finish([Call("buy_category_courses") EXCEPT !.user_id = u, !.course_id = c],
               buy_category_courses(u, c, PyNone, r), r)

A_get_ilt_sessions ==
    /\ pc = "idle"
    /\ \E c \in Ids, r \in CoreResponses :
        Finish([Call("get_ilt_sessions") EXCEPT !.course_id = c], get_ilt_sessions(c, r), r)

\* the caller has the outcome; the frame of the call is gone
Return ==
    /\ pc = "done"
    /\ pc' = "idle"
    /\ call' = Call("")
    /\ resp' = NoResponse
    /\ sent' = <<>>
    /\ outcome' = NoOutcome
    /\ caller_mapping' = NoDict
    /\ failed_before' = (failed_before \/ outcome.kind = "raise")
    /\ UNCHANGED <<init_args, api_url, auth, threads>>

Next ==
    \/ A_get
    \/ A_post
    \/ T_get
    \/ T_post
    \/ A_edit_user
    \/ T_edit_user
    \/ A_get_timeline
    \/ A_create_course
    \/ A_create_group
    \/ A_users
    \/ T_users
    \/ A_user_signup
    \/ A_user_set_status
    \/ A_create_branch
    \/ A_courses
    \/ A_delete_user
    \/ T_delete_user
    \/ A_delete_course
    \/ A_add_user_to_course
    \/ A_remove_user_from_course
    \/ A_user_login
    \/ A_user_logout
    \/ A_get_custom_registration_fields
    \/ T_get_custom_registration_fields
    \/ A_forgot_username
    \/ A_forgot_password
    \/ A_go_to_course
    \/ A_buy_course
    \/ A_buy_category_courses
    \/ A_get_ilt_sessions
    \/ Return

Spec == Init /\ [][Next]_vars

(***************************************************************************)
(* Several callers on one client.  A call is two steps of its caller: it   *)
(* validates its arguments and builds its request from the attributes of   *)
(* the client, and later it takes the transport's answer; the steps of     *)
(* other callers come in between in any order.                             *)
(***************************************************************************)
\* the operation the call c names, applied to c's arguments
Apply(c, r) ==
    CASE c.op = "_get" -> _get(c.api_method, c.api_params, r)
      [] c.op = "_post" -> _post(c.api_method, c.api_params, r)
      [] c.op = "get" -> get(c.api_method, c.api_params, r)
      [] c.op = "post" -> post(c.api_method, c.api_params, r)
      [] c.op = "edit_user" -> edit_user(c.user_id, c.api_params, r)
      [] c.op = "edit_user_talentlms" -> edit_user_talentlms(c.user_id, c.api_params, r)
      [] c.op = "get_timeline" -> get_timeline(c.event_type, r)
      [] c.op = "create_course" ->
            create_course(c.name, c.description, c.third, c.kwargs, r)
      [] c.op = "create_group" ->
            create_group(c.name, c.description, c.third, c.kwargs, r)
      [] c.op = "users" -> users(c.search_term, r)
      [] c.op = "users_talentlms" -> users_talentlms(c.search_term, r)
      [] c.op = "user_signup" ->
            user_signup(PyStr("John"), PyStr("Smith"), PyStr("jsmith@example.com"),
                        PyStr("john.smith"), PyStr("XXXXXXXX"), c.api_params, r)
      [] c.op = "user_set_status" -> user_set_status(c.user_id, c.status, r)
      [] c.op = "courses" -> courses(c.course_id, r)
      [] c.op = "delete_user" ->
            delete_user(c.user_id, c.deleted_by_user_id, c.permanent, r)
      [] c.op = "delete_user_talentlms" ->
            delete_user_talentlms(c.user_id, c.deleted_by_user_id, c.permanent, r)
      [] c.op = "delete_course" -> delete_course(c.course_id, c.deleted_by_user_id, r)
      [] c.op = "get_custom_registration_fields" -> get_custom_registration_fields(r)
      [] c.op = "get_custom_registration_fields_talentlms" ->
            get_custom_registration_fields_talentlms(r)
      [] c.op = "add_user_to_course" -> add_user_to_course(c.user_id, c.course_id, c.extra, r)
      [] c.op = "remove_user_from_course" ->
            remove_user_from_course(c.user_id, c.course_id, r)
      [] c.op = "user_login" -> user_login(c.name, c.description, c.extra, r)
      [] c.op = "user_logout" -> user_logout(c.user_id, c.extra, r)
      [] c.op = "forgot_username" ->
            forgot_username(c.name, PyStr("example.talentlms.com"), r)
      [] c.op = "forgot_password" ->
            forgot_password(c.name, PyStr("example.talentlms.com"),
                            PyStr("https://www.example.com"), r)
      [] c.op = "go_to_course" -> go_to_course(c.user_id, c.course_id, r)
      [] c.op = "buy_course" -> buy_course(c.user_id, c.course_id, PyNone, r)
      [] c.op = "buy_category_courses" ->
            buy_category_courses(c.user_id, c.course_id, PyNone, r)
      [] c.op = "get_ilt_sessions" -> get_ilt_sessions(c.course_id, r)
      [] OTHER -> create_branch(c.name, c.kwargs, r)

\* the calls the concurrent callers make
ConcurrentCalls ==
    {[Call("_get") EXCEPT !.api_method = "users",
                          !.api_params = Dict(<<<<PyStr("id"), PyInt(123456)>>>>)],
     [Call("get") EXCEPT !.api_method = "courses", !.api_params = Dict(<<>>)],
     [Call("users") EXCEPT !.search_term = PyStr("jsmith@example.com")],
     [Call("edit_user") EXCEPT !.user_id = PyInt(40457),
                               !.api_params = Dict(<< <<PyStr("login"), PyStr("johnsmith")>> >>)],
     [Call("user_set_status") EXCEPT !.user_id = PyStr("40457"), !.status = PyStr("inactive")],
     [Call("get_timeline") EXCEPT !.event_type = PyStr("bogus")]}

\* the answers the transport gives them
ConcurrentResponses ==
    {Response(TRUE, JDict(<< <<"result", VStr("ok")>> >>)),
     Response(TRUE, ErrorBody("The requested user does not exist")),
     TransportError}

\* caller t enters a call: the arguments are validated and the request is
\* built and handed to the transport, or the call raises at once
Begin(t) ==
    /\ threads[t].pc = "idle"
    /\ \E c \in ConcurrentCalls :
        LET res == Apply(c, TransportError)
            after == client_after(c, [api_url |-> api_url, auth |-> auth])
        IN /\ threads' = [threads EXCEPT ![t] =
                   [pc |-> IF res.sent = <<>> THEN "done" ELSE "waiting",
                    call |-> c, sent |-> res.sent, resp |-> NoResponse,
                    outcome |-> IF res.sent = <<>> THEN res.outcome ELSE NoOutcome]]
           /\ api_url' = after.api_url
           /\ auth' = after.auth
    /\ UNCHANGED <<init_args, pc, call, resp, sent, outcome, caller_mapping, failed_before>>

\* the transport answers caller t, whose call parses the answer and ends
End(t) ==
    /\ threads[t].pc = "waiting"
    /\ \E r \in ConcurrentResponses :
        threads' = [threads EXCEPT ![t].pc = "done", ![t].resp = r,
                                   ![t].outcome = Apply(threads[t].call, r).outcome]
    /\ UNCHANGED <<init_args, api_url, auth, pc, call, resp, sent, outcome,
                   caller_mapping, failed_before>>

\* caller t has its outcome; the frame of its call is gone
Leave(t) ==
    /\ threads[t].pc = "done"
    /\ threads' = [threads EXCEPT ![t] = IdleFrame]
    /\ UNCHANGED <<init_args, api_url, auth, pc, call, resp, sent, outcome,
                   caller_mapping, failed_before>>

NextC == \E t \in Threads : Begin(t) \/ End(t) \/ Leave(t)

SpecC == Init /\ [][NextC]_vars

(***************************************************************************)
(* Properties.                                                             *)
(***************************************************************************)
HelperOps == {"_get", "_post", "get", "post"}
GetOps == {"_get", "get"}

\* the call that has just ended went through a helper and got a body back
HelperAnswered ==
    /\ pc = "done"
    /\ call.op \in HelperOps
    /\ sent # <<>>
    /\ ~resp.raised

\* what the helper named op does with these arguments and this answer
HelperResult(op, api_method, api_params, r) ==
    CASE op = "_get" -> _get(api_method, api_params, r)
      [] op = "_post" -> _post(api_method, api_params, r)
      [] op = "get" -> get(api_method, api_params, r)
      [] OTHER -> post(api_method, api_params, r)

\* the sequences holding the elements of l, each once, in every order
Orders(l) ==
    {[i \in 1..Len(l) |-> l[f[i]]] :
        f \in {g \in [1..Len(l) -> 1..Len(l)] :
                  \A i, j \in 1..Len(l) : i # j => g[i] # g[j]}}

\* no element of l is smaller than the one before it
IsSorted(l) == \A i \in 1..(Len(l) - 1) : ~str_lt(l[i + 1], l[i])

\* the base URL the constructor's arguments stand for
BaseUrl ==
    (IF init_args.ssl THEN "https" ELSE "http") \o "://" \o init_args.domain \o "/api/v1"

\* C1: the GET helper builds the same request whatever the insertion order of
\* the mapping: every reordering of the items of the call's api_params gives
\* the request that was sent.
C1_OrderIndependent ==
    (pc = "done" /\ call.op \in GetOps /\ ~call.api_params.isNone)
    => \A q \in Orders(call.api_params.items) :
          HelperResult(call.op, call.api_method, Dict(q), resp).sent = sent

\* a GET call whose items were not given in the order they are sent in
C1_Witness ==
    /\ pc = "done"
    /\ call.op \in GetOps
    /\ Len(call.api_params.items) >= 2
    /\ Len(sent) = 1
    /\ ~IsSorted(encode_items(call.api_params.items))

\* the parameter segment the GET helper is to send for these items
C2_Segment(items) ==
    join(",", CHOOSE l \in Orders(encode_items(items)) : IsSorted(l))

\* C2: for a non-empty mapping the GET helper requests exactly
\* {scheme}://{domain}/api/v1/{endpoint}/{segment}, the segment being the
\* comma-joined sorted list of encoded-key:encoded-value strings; on the
\* parameters of the tests it is the URL the tests expect.
C2_ExactUrl ==
    (pc = "done" /\ call.op \in GetOps /\ Len(call.api_params.items) > 0)
    => /\ Len(sent) = 1
       /\ sent[1].verb = "GET"
       /\ sent[1].url = BaseUrl \o "/" \o call.api_method \o "/"
                           \o C2_Segment(call.api_params.items)
       /\ (call.api_params = Dict(test_data) /\ init_args.ssl)
          => sent[1].url = "https://example.talentlms.com/api/v1/test_api_method/"
                 \o "param_1:str_value%3Awith%2Fspecial.symbols,param_2:1,param_3:False,"
                 \o "param_4:user@example.com"
       /\ (call.api_params.items = << <<PyStr("a b"), PyInt(40457)>>,
                                      <<PyStr("a/b"), PyStr("j smith@example.com")>> >>)
          => sent[1].url = BaseUrl \o "/users/a%2Fb:j+smith@example.com,a+b:40457"

\* the tests' GET call has been made
C2_Witness ==
    /\ pc = "done"
    /\ call.op = "get"
    /\ call.api_params = Dict(test_data)
    /\ init_args.ssl
    /\ Len(sent) = 1

\* the parsed body is an object whose error value has a message
HasErrorMessage ==
    /\ HelperAnswered
    /\ resp.body.t = "dict"
    /\ has_key(resp.body.members, "error")
    /\ error_message(resp.body).exc = ""

\* the error table of the file the helper named op belongs to
TableOf(op) == IF op \in {"_get", "_post"} THEN exc_map ELSE exc_map_talentlms

\* C3: a message equal to a string of the table raises the kind the table
\* assigns to it; every other message, also one that differs from a known
\* one by case or blanks only, raises the generic TalentLMSError.
C3_ErrorKinds ==
    HasErrorMessage
    => LET m == error_message(resp.body).message
       IN /\ outcome.kind = "raise"
          /\ m \in DOMAIN TableOf(call.op) => outcome.exc = TableOf(call.op)[m]
          /\ m \notin DOMAIN TableOf(call.op) => outcome.exc = "TalentLMSError"
          /\ m = "The requested user does not exist"
             => outcome.exc = "UserDoesNotExistError"
          /\ m \in {"A user with the same login already exists",
                    "A user with the same email address already exists"}
             => outcome.exc = "UserAlreadyExistsError"
          /\ m \in {"the requested user does not exist",
                    "The requested user does not exist ",
                    " A user with the same login already exists"}
             => outcome.exc = "TalentLMSError"

\* the duplicate-login message has raised the duplicate-user kind
C3_Witness ==
    /\ HasErrorMessage
    /\ error_message(resp.body).message = "A user with the same login already exists"
    /\ outcome.exc = "UserAlreadyExistsError"

\* C4: a parsed body that is an object without an error key is returned
\* unchanged by the GET and POST helpers, and nothing is raised.
C4_ObjectReturned ==
    (HelperAnswered /\ resp.body.t = "dict" /\ ~has_key(resp.body.members, "error"))
    => outcome = Returned(resp.body)

\* an object without an error key, one of whose values is 'error', was returned
C4_Witness ==
    /\ HelperAnswered
    /\ resp.body = JDict(<< <<"id", VStr("40457")>>, <<"status", VStr("error")>> >>)
    /\ outcome.kind = "return"

\* C5: a parsed body that is an array is returned unchanged by the GET and
\* POST helpers, whatever its elements, and nothing is raised.
C5_ArrayReturned ==
    (HelperAnswered /\ resp.body.t = "list") => outcome = Returned(resp.body)

\* C6: when the parsed body is an object with an error key, the helpers
\* never return a value: the call ends by raising.
C6_ErrorNeverReturns ==
    (HelperAnswered /\ resp.body.t = "dict" /\ has_key(resp.body.members, "error"))
    => outcome.kind = "raise"

\* an error value that is no object made the call raise
C6_Witness ==
    /\ HelperAnswered
    /\ resp.body = JDict(<< <<"error", VNone>> >>)
    /\ outcome.kind = "raise"
    /\ outcome.exc = "TypeError"

\* C7: the outcome depends on the body only, not on the HTTP status: the
\* same call answered with the same body under the other status flag ends
\* the same way.
C7_StatusIgnored ==
    HelperAnswered
    => HelperResult(call.op, call.api_method, call.api_params,
                    Response(~resp.ok, resp.body)).outcome = outcome

\* a response flagged as an HTTP failure whose body was returned
C7_Witness ==
    /\ HelperAnswered
    /\ ~resp.ok
    /\ resp.body.t = "dict"
    /\ outcome = Returned(resp.body)

\* C8: get_timeline with an event type that is no key of the events table
\* raises ValueError without any request; with a key it issues exactly one
\* GET to gettimeline with event_type equal to the key.
C8_TimelineValidated ==
    (pc = "done" /\ call.op = "get_timeline")
    => IF call.event_type.t = "str" /\ call.event_type.s \in DOMAIN events
       THEN /\ Len(sent) = 1
            /\ sent[1].verb = "GET"
            /\ sent[1].url = BaseUrl \o "/gettimeline/event_type:" \o call.event_type.s
       ELSE /\ sent = <<>>
            /\ outcome.kind = "raise"
            /\ outcome.exc = "ValueError"

\* an event type that differs from a key by case only was refused
C8_Witness ==
    /\ pc = "done"
    /\ call.op = "get_timeline"
    /\ call.event_type = PyStr("User_login_user")
    /\ sent = <<>>
    /\ outcome.exc = "ValueError"

\* C9: edit_user with an empty user_info raises ValueError without any
\* request, for every user_id, also one that is no integer.
C9_EmptyUserInfo ==
    (pc = "done" /\ call.op \in {"edit_user", "edit_user_talentlms"}
        /\ call.api_params = Dict(<<>>))
    => /\ sent = <<>>
       /\ outcome.kind = "raise"
       /\ outcome.exc = "ValueError"
       /\ outcome.message = "user_info must have at least one property"

\* an empty user_info given with a user_id that int() refuses
C9_Witness ==
    /\ pc = "done"
    /\ call.op = "edit_user"
    /\ call.api_params = Dict(<<>>)
    /\ call.user_id = PyNone
    /\ outcome.exc = "ValueError"

\* the names create_course, or create_group, accepts as keyword arguments
AllowList(op) ==
    IF op = "create_course" THEN {"code", "price", "time_limit", "creator_id"}
    ELSE {"price", "creator_id", "max_redemptions"}

\* the value v is one the keyword argument k takes: None, or a value its type accepts
ValidKwarg(k, v) ==
    \/ v = PyNone
    \/ k = "code"
    \/ k = "price" /\ float(v).exc = ""
    \/ k \in {"time_limit", "creator_id", "max_redemptions"} /\ int(v).exc = ""

\* C10: create_course and create_group given a keyword argument outside
\* their allow-list raise KeyError without any request, whatever valid
\* keyword arguments come with it, before or after it (valid: a name of the
\* allow-list with a value that is None or that its type accepts).
C10_UnknownKwarg ==
    (/\ pc = "done"
     /\ call.op \in {"create_course", "create_group"}
     /\ \E i \in 1..Len(call.kwargs) : call.kwargs[i][1].s \notin AllowList(call.op)
     /\ \A i \in 1..Len(call.kwargs) :
            call.kwargs[i][1].s \in AllowList(call.op)
            => ValidKwarg(call.kwargs[i][1].s, call.kwargs[i][2]))
    => /\ sent = <<>>
       /\ outcome.kind = "raise"
       /\ outcome.exc = "KeyError"

\* an unknown keyword argument given after a valid one was refused
C10_Witness ==
    /\ pc = "done"
    /\ call.op = "create_course"
    /\ call.kwargs = << <<PyStr("price"), PyInt(5)>>, <<PyStr("bogus"), PyInt(5)>> >>
    /\ sent = <<>>
    /\ outcome.exc = "KeyError"

\* the credentials the constructor's arguments stand for
Credentials == [username |-> init_args.api_key, password |-> ""]

\* C11: every HTTP request the client issues, GET or POST and from any
\* operation, carries the Basic credentials built at construction: the API
\* key as username and the empty string as password.
C11_AuthOnEveryRequest ==
    pc = "done" => \A i \in 1..Len(sent) : sent[i].auth = Credentials

\* create_group has sent its POST on a client built with the second key
C11_Witness ==
    /\ pc = "done"
    /\ call.op = "create_group"
    /\ init_args.api_key = "k3y:2"
    /\ Len(sent) = 1
    /\ sent[1].verb = "POST"

\* C12: the POST helpers request exactly {scheme}://{domain}/api/v1/{endpoint},
\* with no parameter segment, and hand the caller's mapping to the transport
\* as the form body, entry for entry and in the caller's order.
C12_PostRequest ==
    (pc = "done" /\ call.op \in {"_post", "post"})
    => /\ Len(sent) = 1
       /\ sent[1].verb = "POST"
       /\ sent[1].url = BaseUrl \o "/" \o call.api_method
       /\ sent[1].data = call.api_params

\* a POST whose mapping holds characters the GET helper would escape
C12_Witness ==
    /\ pc = "done"
    /\ call.op = "_post"
    /\ call.api_method = "test_api_method"
    /\ ~call.api_params.isNone
    /\ Len(call.api_params.items) = 2
    /\ call.api_params.items[1] = <<PyStr("e+mail %"), PyStr("50%+1 @x")>>
    /\ Len(sent) = 1

\* C18: when the transport fails, or the body of the response is no JSON,
\* the call ends with the error of the transport or of the JSON parser
\* itself: no TalentLMSError kind, no message or parameters added, and no
\* value returned.
C18_TransportErrorsPropagate ==
    (pc = "done" /\ sent # <<>>)
    => /\ resp.raised => outcome = Threw("ConnectionError")
       /\ (~resp.raised /\ resp.body = NotJson) => outcome = Threw("JSONDecodeError")

\* a POST answered with a body that is no JSON ended with the parser's error
C18_Witness ==
    /\ pc = "done"
    /\ call.op = "_post"
    /\ Len(sent) = 1
    /\ ~resp.raised
    /\ resp.body = NotJson
    /\ outcome.kind = "raise"
    /\ outcome.exc = "JSONDecodeError"

\* chr(n), for the printable ASCII characters
chr(n) == Ascii[n - 31]

\* c is a hexadecimal digit, as quote() writes them
IsHex(c) == c \in Chars("0123456789ABCDEF")

\* int(c, 16) of one hexadecimal digit
hexval(c) == (CHOOSE i \in 1..16 : CharAt("0123456789ABCDEF", i) = c) - 1

\* urllib.parse.unquote_plus(string): a plus sign is a blank, %XX is the
\* character of that code, a percent sign without two digits stays
RECURSIVE unquote_plus(_)
unquote_plus(string) ==
    IF Len(string) = 0 THEN ""
    ELSE IF CharAt(string, 1) = "+"
    THEN " " \o unquote_plus(SubSeq(string, 2, Len(string)))
    ELSE IF /\ CharAt(string, 1) = "%"
            /\ Len(string) >= 3
            /\ IsHex(CharAt(string, 2))
            /\ IsHex(CharAt(string, 3))
    THEN chr(16 * hexval(CharAt(string, 2)) + hexval(CharAt(string, 3)))
         \o unquote_plus(SubSeq(string, 4, Len(string)))
    ELSE CharAt(string, 1) \o unquote_plus(SubSeq(string, 2, Len(string)))

\* the place of the first sep in string, or 0
RECURSIVE find(_, _, _)
find(string, sep, i) ==
    IF i > Len(string) THEN 0
    ELSE IF CharAt(string, i) = sep THEN i
    ELSE find(string, sep, i + 1)

\* string.split(sep), for a separator of one character
RECURSIVE split(_, _)
split(string, sep) ==
    IF find(string, sep, 1) = 0 THEN <<string>>
    ELSE <<SubSeq(string, 1, find(string, sep, 1) - 1)>>
         \o split(SubSeq(string, find(string, sep, 1) + 1, Len(string)), sep)

\* the number of times the character c is in string
RECURSIVE count(_, _)
count(string, c) ==
    IF Len(string) = 0 THEN 0
    ELSE (IF CharAt(string, 1) = c THEN 1 ELSE 0)
         + count(SubSeq(string, 2, Len(string)), c)

\* the parameter segment of the URL of the GET request that was sent
SentSegment ==
    SubSeq(sent[1].url, Len(BaseUrl \o "/" \o call.api_method \o "/") + 1, Len(sent[1].url))

\* C13: in the GET parameter segment every key and value decodes back to the
\* original string: the segment has one key:value part for each item of the
\* mapping, and the part of an item decodes to str(key) and str(value); each
\* '@' of a value is in the segment as a literal '@', never as %40.
C13_RoundTrip ==
    (pc = "done" /\ call.op \in GetOps /\ Len(call.api_params.items) > 0)
    => LET items == call.api_params.items
           parts == split(SentSegment, ",")
       IN /\ Len(sent) = 1
          /\ Len(parts) = Len(items)
          /\ \A i \in 1..Len(items) :
                \E j \in 1..Len(parts) :
                    LET kv == split(parts[j], ":")
                    IN /\ Len(kv) = 2
                       /\ unquote_plus(kv[1]) = str(items[i][1])
                       /\ unquote_plus(kv[2]) = str(items[i][2])
                       /\ count(kv[2], "@") = count(str(items[i][2]), "@")
                       /\ ~is_substring("%40", kv[2])

\* a GET whose mapping holds '+', '%', a blank and '@' in a key and in values
C13_Witness ==
    /\ pc = "done"
    /\ call.op = "_get"
    /\ call.api_params =
          Dict(<< <<PyStr("e+mail %"), PyStr("50%+1 @x")>>, <<PyStr("a@b"), PyStr("@%40@")>> >>)
    /\ Len(sent) = 1
    /\ is_substring("a%40b:@%2540@", sent[1].url)
    /\ is_substring("e%2Bmail+%25:50%25%2B1+@x", sent[1].url)

\* the URL of a GET to users with one parameter
UsersUrl(key, value) == BaseUrl \o "/users/" \o key \o ":" \o value

\* C19: users(search_term) issues one GET to users whose parameters are
\* none when search_term is absent, id (the integer value) when it is an
\* integer or a string made only of digits, email when it is another string
\* holding '@', and username for every other string; one of the four cases
\* applies to every input.
C19_UsersCases ==
    (pc = "done" /\ call.op \in {"users", "users_talentlms"})
    => LET st == call.search_term
       IN /\ Len(sent) = 1
          /\ sent[1].verb = "GET"
          /\ sent[1].url =
                IF st = PyNone THEN BaseUrl \o "/users/"
                ELSE IF st.t \in {"int", "bool"} THEN UsersUrl("id", digits(st.n))
                ELSE IF isdigit(st.s) THEN UsersUrl("id", digits(number(st.s)))
                ELSE IF "@" \in Chars(st.s) THEN UsersUrl("email", quote_plus(st.s, "@"))
                ELSE UsersUrl("username", quote_plus(st.s, "@"))

\* the status user_set_status takes
ValidStatus(status) == status \in {PyStr("active"), PyStr("inactive")}

\* C20: user_set_status with a status other than the strings 'active' and
\* 'inactive' raises ValueError and has issued no request; with one of the
\* two (and a user_id that int() accepts) it issues one GET to usersetstatus
\* carrying that status and the integer user_id.
C20_StatusValidated ==
    (pc = "done" /\ call.op = "user_set_status")
    => /\ ~ValidStatus(call.status)
          => /\ sent = <<>>
             /\ outcome.kind = "raise"
             /\ outcome.exc = "ValueError"
       /\ (ValidStatus(call.status) /\ int(call.user_id).exc = "")
          => /\ Len(sent) = 1
             /\ sent[1].verb = "GET"
             /\ sent[1].url = BaseUrl \o "/usersetstatus/status:" \o call.status.s
                                 \o ",user_id:" \o digits(int(call.user_id).v.n)

\* a status that differs from 'active' by case only was refused, with a
\* user_id that is no integer
C20_Witness ==
    /\ pc = "done"
    /\ call.op = "user_set_status"
    /\ call.status = PyStr("Active")
    /\ call.user_id = PyStr("john")
    /\ sent = <<>>
    /\ outcome.exc = "ValueError"
    /\ outcome.message = "Invalid status: Active. Must be \"active\" or \"inactive\""

\* the operations of talentlms.py
TalentlmsOps ==
    {"get", "post", "edit_user_talentlms", "users_talentlms", "delete_user_talentlms",
     "get_custom_registration_fields_talentlms"}

\* the call that has just ended got a body reporting an error with a message
ServerError ==
    /\ pc = "done"
    /\ sent # <<>>
    /\ ~resp.raised
    /\ resp.body.t = "dict"
    /\ has_key(resp.body.members, "error")
    /\ error_message(resp.body).exc = ""

\* the URL of a GET to endpoint with the parameters params
GetUrl(endpoint, params) ==
    BaseUrl \o "/" \o endpoint \o "/"
        \o (IF params.isNone \/ Len(params.items) = 0 THEN "" ELSE C2_Segment(params.items))

\* C16: a failure raised for a server-reported error carries the server's
\* message unchanged in its message field, and in request_params the
\* parameters of the request that failed: the request that was sent is the
\* one these parameters give (with the endpoint, for api.py, which keeps the
\* pair (api_method, api_params)).
C16_ErrorCarriesRequest ==
    ServerError
    => LET rp == outcome.request_params
       IN /\ outcome.kind = "raise"
          /\ outcome.message = lookup(lookup(resp.body.members, "error").members, "message")
          /\ rp.tuple = (call.op \notin TalentlmsOps)
          /\ sent[1].verb = "POST" => sent[1].data = rp.api_params
          /\ sent[1].verb = "GET"
             => \E endpoint \in {"users", "test_api_method", "gettimeline", "usersetstatus",
                                  "courses", "removeuserfromcourse",
                                  "getcustomregistrationfields"} :
                   /\ rp.tuple => rp.api_method = endpoint
                   /\ sent[1].url = GetUrl(endpoint, rp.api_params)
          /\ (sent[1].verb = "POST" /\ rp.tuple)
             => sent[1].url = BaseUrl \o "/" \o rp.api_method

\* edit_user was refused by the server: the error names the parameters sent
C16_Witness ==
    /\ ServerError
    /\ call.op = "edit_user"
    /\ outcome.exc = "UserDoesNotExistError"
    /\ outcome.message = "The requested user does not exist"
    /\ outcome.request_params =
          RequestParams("edituser", Dict(<< <<PyStr("user_id"), PyInt(40457)>>,
                                            <<PyStr("login"), PyStr("johnsmith")>> >>))

\* the operations of the model that are not implemented
Stubs ==
    {"create_branch", "forgot_username", "forgot_password", "go_to_course", "buy_course",
     "buy_category_courses", "get_ilt_sessions"}

\* the arguments of the call c are refused on the client: a check of the
\* operation fails, or a conversion of an argument raises
PreValidationFails(c) ==
    CASE c.op \in {"edit_user", "edit_user_talentlms"} ->
            \/ c.api_params.isNone
            \/ Len(c.api_params.items) = 0
            \/ int(c.user_id).exc # ""
      [] c.op = "get_timeline" ->
            ~(c.event_type.t = "str" /\ c.event_type.s \in DOMAIN events)
      [] c.op \in {"create_course", "create_group"} ->
            \E i \in 1..Len(c.kwargs) :
                \/ c.kwargs[i][1].s \notin AllowList(c.op)
                \/ ~ValidKwarg(c.kwargs[i][1].s, c.kwargs[i][2])
      [] c.op \in {"users", "users_talentlms"} ->
            c.search_term.t = "str" /\ isdigit(c.search_term.s) /\ int(c.search_term).exc # ""
      [] c.op = "user_set_status" ->
            ~ValidStatus(c.status) \/ int(c.user_id).exc # ""
      [] c.op = "get" -> c.api_params.isNone
      [] c.op = "courses" -> c.course_id # PyNone /\ int(c.course_id).exc # ""
      [] c.op \in {"delete_user", "delete_user_talentlms"} ->
            \/ int(c.user_id).exc # ""
            \/ no_yes(c.permanent).exc # ""
            \/ c.deleted_by_user_id # PyNone /\ int(c.deleted_by_user_id).exc # ""
      [] c.op = "delete_course" ->
            \/ int(c.course_id).exc # ""
            \/ c.deleted_by_user_id # PyNone /\ int(c.deleted_by_user_id).exc # ""
      [] c.op \in {"add_user_to_course", "remove_user_from_course"} ->
            int(c.user_id).exc # "" \/ int(c.course_id).exc # ""
      [] OTHER -> FALSE

\* C15 as stated: every call to a public operation issues at most one
\* request, exactly one when client-side pre-validation passes and none when
\* it fails.
C15_OneRequestIffValid ==
    pc = "done"
    => /\ Len(sent) <= 1
       /\ PreValidationFails(call) => Len(sent) = 0
       /\ ~PreValidationFails(call) => Len(sent) = 1

\* C15, amended: every call issues at most one request: exactly one when the
\* operation is implemented and pre-validation passes, none when
\* pre-validation fails or the operation is not implemented, and then the
\* call raises; a failed response or a transport error is followed by no
\* second request.
C15_AtMostOneRequest ==
    pc = "done"
    => /\ Len(sent) <= 1
       /\ (PreValidationFails(call) \/ call.op \in Stubs) => (sent = <<>> /\ outcome.kind = "raise")
       /\ ~(PreValidationFails(call) \/ call.op \in Stubs) => Len(sent) = 1
       /\ (sent # <<>> /\ (resp.raised \/ outcome.kind = "raise")) => Len(sent) = 1

\* the transport failed under a call of users, and one request was issued
C15_Witness ==
    /\ pc = "done"
    /\ call.op = "users"
    /\ call.search_term = PyNone
    /\ resp.raised
    /\ Len(sent) = 1
    /\ outcome = Threw("ConnectionError")

CoercingOps ==
    {"courses", "delete_user", "delete_user_talentlms", "delete_course",
     "add_user_to_course", "remove_user_from_course"}

\* the identifiers the call c passes to int(): the required ones, and the
\* optional ones that are given
IdArgs(c) ==
    CASE c.op = "courses" -> IF c.course_id = PyNone THEN {} ELSE {c.course_id}
      [] c.op \in {"delete_user", "delete_user_talentlms"} ->
            {c.user_id} \cup ({c.deleted_by_user_id} \ {PyNone})
      [] c.op = "delete_course" -> {c.course_id} \cup ({c.deleted_by_user_id} \ {PyNone})
      [] OTHER -> {c.user_id, c.course_id}

\* an identifier in its integer form, if it has one
canon(v) == IF v = PyNone \/ int(v).exc # "" THEN v ELSE int(v).v

\* the call c with every identifier in its integer form
Canonical(c) ==
    [c EXCEPT !.user_id = canon(c.user_id), !.course_id = canon(c.course_id),
              !.deleted_by_user_id = canon(c.deleted_by_user_id)]

\* the keys under which identifiers are sent
IdKeys == {PyStr("id"), PyStr("user_id"), PyStr("course_id"), PyStr("deleted_by_user_id")}

\* C21: an operation that coerces an identifier sends it as its integer
\* value: the request is the one the same call sends with every identifier
\* given as an integer, and a posted identifier is an int; an identifier
\* that int() refuses makes the call raise before any request.
C21_IdentifiersCoerced ==
    (/\ pc = "done"
     /\ call.op \in CoercingOps
     /\ call.op \in {"delete_user", "delete_user_talentlms"}
        => no_yes(call.permanent).exc = "")
    => IF \A v \in IdArgs(call) : int(v).exc = ""
       THEN /\ Len(sent) = 1
            /\ sent = Apply(Canonical(call), resp).sent
            /\ ~sent[1].data.isNone
               => \A i \in 1..Len(sent[1].data.items) :
                     sent[1].data.items[i][1] \in IdKeys
                     => sent[1].data.items[i][2].t = "int"
       ELSE /\ sent = <<>>
            /\ outcome.kind = "raise"
            /\ outcome.exc \in {"ValueError", "TypeError"}

\* delete_course given digit strings has posted the integers they denote
C21_Witness ==
    /\ pc = "done"
    /\ call.op = "delete_course"
    /\ call.course_id = PyStr("007")
    /\ call.deleted_by_user_id = PyStr("1")
    /\ Len(sent) = 1
    /\ sent[1].data = Dict(<< <<PyStr("course_id"), PyInt(7)>>,
                              <<PyStr("deleted_by_user_id"), PyInt(1)>> >>)

\* C22: delete_user (with identifiers int() accepts and a boolean flag)
\* posts to deleteuser a body holding user_id as an integer and permanent
\* equal to 'yes' when the flag is true and 'no' when it is false; the body
\* holds deleted_by_user_id if and only if that argument was given.
C22_DeleteUserBody ==
    (/\ pc = "done"
     /\ call.op \in {"delete_user", "delete_user_talentlms"}
     /\ call.permanent.t = "bool"
     /\ \A v \in IdArgs(call) : int(v).exc = "")
    => /\ Len(sent) = 1
       /\ sent[1].verb = "POST"
       /\ sent[1].url = BaseUrl \o "/deleteuser"
       /\ lookup(sent[1].data.items, PyStr("user_id")) = int(call.user_id).v
       /\ lookup(sent[1].data.items, PyStr("permanent"))
            = (IF call.permanent = PyBool(TRUE) THEN PyStr("yes") ELSE PyStr("no"))
       /\ has_key(sent[1].data.items, PyStr("deleted_by_user_id"))
            <=> call.deleted_by_user_id # PyNone
       /\ call.deleted_by_user_id # PyNone
            => lookup(sent[1].data.items, PyStr("deleted_by_user_id"))
                 = int(call.deleted_by_user_id).v
       /\ Len(sent[1].data.items) = (IF call.deleted_by_user_id = PyNone THEN 2 ELSE 3)

\* a permanent deletion without deleted_by_user_id has been posted
C22_Witness ==
    /\ pc = "done"
    /\ call.op = "delete_user"
    /\ call.permanent = PyBool(TRUE)
    /\ call.deleted_by_user_id = PyNone
    /\ call.user_id = PyStr("40457")
    /\ Len(sent) = 1
    /\ sent[1].data = Dict(<< <<PyStr("user_id"), PyInt(40457)>>,
                              <<PyStr("permanent"), PyStr("yes")>> >>)

\* the optional arguments of a call: the body key each is sent under, and the
\* value the caller gave for it (None when left out)
OptionalArgs(c) ==
    CASE c.op = "user_login" -> {<<"logout_redirect", c.extra>>}
      [] c.op = "user_logout" -> {<<"next", c.extra>>}
      [] c.op \in {"delete_user", "delete_user_talentlms", "delete_course"} ->
            {<<"deleted_by_user_id", c.deleted_by_user_id>>}
      [] c.op \in {"create_course", "create_group"} ->
            {<<"description", c.description>>,
             <<(IF c.op = "create_course" THEN "category_id" ELSE "key"), c.third>>}
            \cup {<<k, IF \E i \in 1..Len(c.kwargs) : c.kwargs[i][1].s = k
                       THEN c.kwargs[CHOOSE i \in 1..Len(c.kwargs) : c.kwargs[i][1].s = k][2]
                       ELSE PyNone>> : k \in AllowList(c.op)}
      [] OTHER -> {}

\* C23: in the request of user_login, user_logout, the delete operations,
\* create_course and create_group, the body holds the key of an optional
\* argument if and only if the caller gave a value other than None for it,
\* and the body never holds None under such a key.
C23_AbsentNotSent ==
    (pc = "done" /\ Len(sent) = 1 /\ OptionalArgs(call) # {})
    => \A a \in OptionalArgs(call) :
        /\ has_key(sent[1].data.items, PyStr(a[1])) <=> a[2] # PyNone
        /\ lookup(sent[1].data.items, PyStr(a[1])) # PyNone

\* user_login without logout_redirect has posted login and password only,
\* and create_course given price=None has posted no price
C23_Witness ==
    /\ pc = "done"
    /\ Len(sent) = 1
    /\ \/ /\ call.op = "user_login"
          /\ call.extra = PyNone
          /\ Len(sent[1].data.items) = 2
       \/ /\ call.op = "create_course"
          /\ call.kwargs = << <<PyStr("price"), PyNone>>, <<PyStr("code"), PyStr("free")>> >>
          /\ call.description = PyNone
          /\ ~has_key(sent[1].data.items, PyStr("price"))
          /\ has_key(sent[1].data.items, PyStr("code"))

\* the names of the records of a list, in the order of the response
Names(elems) == {lookup(elems[i].members, "name") : i \in 1..Len(elems)}

\* the response is a list of records that each have a name
IsFieldList(body) ==
    /\ body.t = "list"
    /\ \A i \in 1..Len(body.elems) :
        body.elems[i].t = "dict" /\ has_key(body.elems[i].members, "name")

\* C24: get_custom_registration_fields, answered with a list of records that
\* each have a name, returns a mapping with exactly one entry per distinct
\* name; the entry of a name is the last record of the response with that
\* name, unchanged.
C24_FieldsByName ==
    (/\ pc = "done"
     /\ call.op \in {"get_custom_registration_fields",
                     "get_custom_registration_fields_talentlms"}
     /\ ~resp.raised
     /\ IsFieldList(resp.body))
    => /\ outcome.kind = "return"
       /\ outcome.value.t = "dict"
       /\ {outcome.value.members[i][1] : i \in 1..Len(outcome.value.members)}
            = Names(resp.body.elems)
       /\ Len(outcome.value.members) = Cardinality(Names(resp.body.elems))
       /\ \A i \in 1..Len(outcome.value.members) :
            \E j \in 1..Len(resp.body.elems) :
                /\ outcome.value.members[i] =
                        <<lookup(resp.body.elems[j].members, "name"), resp.body.elems[j]>>
                /\ \A k \in (j + 1)..Len(resp.body.elems) :
                        lookup(resp.body.elems[k].members, "name")
                            # outcome.value.members[i][1]

\* three records, the first and the last sharing a name, gave two entries
C24_Witness ==
    /\ pc = "done"
    /\ call.op = "get_custom_registration_fields"
    /\ resp.body = JList(<< Field("Company", "text"), Field("Size", "dropdown"),
                            Field("Company", "dropdown") >>)
    /\ outcome = Returned(JDict(<< <<"Company", Field("Company", "dropdown")>>,
                                   <<"Size", Field("Size", "dropdown")>> >>))

\* C25: the GET helper called with no parameters, with None or with an empty
\* mapping sends one GET to {scheme}://{domain}/api/v1/{endpoint}/ (the
\* endpoint, a slash and an empty parameter segment), the same request for
\* the three forms. (Not an invariant: get of talentlms.py given None raises
\* AttributeError on api_params.items() and sends nothing.)
C25_EmptySegment ==
    (/\ pc = "done"
     /\ call.op \in GetOps
     /\ call.api_params.isNone \/ call.api_params.items = <<>>)
    => sent = <<Request("GET", BaseUrl \o "/" \o call.api_method \o "/", NoDict, Credentials)>>

\* `except other` handles the failure the call has raised
Handles(other) ==
    /\ outcome.kind = "raise"
    /\ IF call.op \in TalentlmsOps THEN issubclass_talentlms(outcome.exc, other)
       ELSE issubclass(outcome.exc, other)

\* C26: every failure kind of either error table is a subclass of
\* TalentLMSError, and a call answered with a body whose error value has a
\* message, known or unknown, raises a failure that `except TalentLMSError`
\* handles.
C26_AllKindsAreTalentLMSError ==
    /\ \A m \in DOMAIN exc_map : issubclass(exc_map[m], "TalentLMSError")
    /\ \A m \in DOMAIN exc_map_talentlms :
            issubclass_talentlms(exc_map_talentlms[m], "TalentLMSError")
    /\ ServerError => Handles("TalentLMSError")

\* a known message raised its specific kind, which is not TalentLMSError itself
C26_Witness ==
    /\ ServerError
    /\ call.op = "add_user_to_course"
    /\ lookup(lookup(resp.body.members, "error").members, "message")
            = "The requested user does not exist"
    /\ outcome.exc = "UserDoesNotExistError"
    /\ Handles("TalentLMSError")

\* the helper got an object whose error value is an object without a message
ErrorWithoutMessage ==
    /\ HelperAnswered
    /\ resp.body.t = "dict"
    /\ has_key(resp.body.members, "error")
    /\ lookup(resp.body.members, "error").t = "dict"
    /\ ~has_key(lookup(resp.body.members, "error").members, "message")

\* C27: a helper answered with an object whose error value is an object
\* without a message field returns nothing: it raises KeyError, a lookup
\* error of the language and no TalentLMSError, with no message and no
\* request parameters, the error table not having been consulted.
C27_MissingMessage ==
    ErrorWithoutMessage
    => /\ outcome = Threw("KeyError")
       /\ Handles("LookupError")
       /\ ~Handles("TalentLMSError")

\* the body {"error": {"type": "invalid_request_error"}} ended a GET with KeyError
C27_Witness ==
    /\ ErrorWithoutMessage
    /\ call.op = "_get"
    /\ resp.body = JDict(<< <<"error", VDict(<< <<"type", "invalid_request_error">> >>)>> >>)
    /\ outcome.kind = "raise"
    /\ outcome.exc = "KeyError"

\* the fixed fields of a call of edit_user or user_signup, from its
\* positional arguments
FixedFields(c) ==
    IF c.op = "user_signup"
    THEN << <<PyStr("first_name"), PyStr("John")>>, <<PyStr("last_name"), PyStr("Smith")>>,
            <<PyStr("email"), PyStr("jsmith@example.com")>>,
            <<PyStr("login"), PyStr("john.smith")>>,
            <<PyStr("password"), PyStr("XXXXXXXX")>> >>
    ELSE << <<PyStr("user_id"), int(c.user_id).v>> >>

\* the entries of the caller's mapping (none for custom_fields=None)
CallerItems(c) == IF c.api_params.isNone THEN <<>> ELSE c.api_params.items

\* the keys of the items of a dict
Keys(items) == {items[i][1] : i \in 1..Len(items)}

\* C28: the body edit_user and user_signup post holds every entry of the
\* caller's mapping, and each fixed field with the value of the positional
\* argument unless the mapping has that key, in which case the mapping's
\* value is the one posted; the body holds no other key and each key once.
C28_CallerMappingWins ==
    (/\ pc = "done"
     /\ call.op \in {"edit_user", "edit_user_talentlms", "user_signup"}
     /\ Len(sent) = 1)
    => LET body == sent[1].data.items
           given == CallerItems(call)
           fixed == FixedFields(call)
       IN /\ \A i \in 1..Len(given) : lookup(body, given[i][1]) = given[i][2]
          /\ \A i \in 1..Len(fixed) :
                fixed[i][1] \notin Keys(given) => lookup(body, fixed[i][1]) = fixed[i][2]
          /\ Keys(body) = Keys(fixed) \cup Keys(given)
          /\ Len(body) = Cardinality(Keys(body))

\* custom_fields with an email replaced the email of the positional argument
C28_Witness ==
    /\ pc = "done"
    /\ call.op = "user_signup"
    /\ Len(sent) = 1
    /\ lookup(call.api_params.items, PyStr("email")) = PyStr("other@example.com")
    /\ lookup(sent[1].data.items, PyStr("email")) = PyStr("other@example.com")
    /\ lookup(sent[1].data.items, PyStr("login")) = PyStr("john.smith")
    /\ Len(sent[1].data.items) = 6

\* C29: each of the seven operations that are not implemented raises
\* NotImplementedError, whatever its arguments and whatever the server would
\* answer, and sends no request.
C29_StubsRaise ==
    (pc = "done" /\ call.op \in Stubs)
    => /\ sent = <<>>
       /\ resp = NoResponse
       /\ outcome = Threw("NotImplementedError")

\* create_branch given a description has raised without a request
C29_Witness ==
    /\ pc = "done"
    /\ call.op = "create_branch"
    /\ call.kwargs = << <<PyStr("description"), PyStr("about")>> >>
    /\ sent = <<>>
    /\ outcome.exc = "NotImplementedError"

\* the helper of the other file, called with the arguments of the call c and
\* answered with r
Counterpart(c, r) ==
    CASE c.op = "_get" -> get(c.api_method, c.api_params, r)
      [] c.op = "get" -> _get(c.api_method, c.api_params, r)
      [] c.op = "_post" -> post(c.api_method, c.api_params, r)
      [] OTHER -> _post(c.api_method, c.api_params, r)

\* the messages only the table of exceptions.py knows
OnlyInExceptions == DOMAIN exc_map \ DOMAIN exc_map_talentlms

\* a helper has been called with a mapping (None is no input of the helpers
\* of talentlms.py)
CommonInput ==
    /\ pc = "done"
    /\ call.op \in HelperOps
    /\ ~call.api_params.isNone

\* the helper of the other file sends the same request and returns the same value
SameRequestAndValue ==
    /\ sent = Counterpart(call, resp).sent
    /\ outcome.kind = Counterpart(call, resp).outcome.kind
    /\ outcome.value = Counterpart(call, resp).outcome.value
    /\ outcome.message = Counterpart(call, resp).outcome.message

\* C30 as stated: on every endpoint, mapping and response the helpers of the
\* two files send the same request and return the same value or raise the
\* same failure kind with the same message. (Not an invariant: for a message
\* only the table of exceptions.py knows, the kinds differ.)
C30_HelpersEquivalent ==
    CommonInput
    => /\ SameRequestAndValue
       /\ outcome.exc = Counterpart(call, resp).outcome.exc

\* C30, amended: the helpers of the two files send the same request and
\* return the same value or raise with the same message; the failure kind is
\* the same too, except for a message only the table of exceptions.py knows,
\* for which the helper of api.py raises the kind of that table and the
\* helper of talentlms.py raises TalentLMSError.
C30_EquivalentUpToTable ==
    CommonInput
    => /\ SameRequestAndValue
       /\ IF ServerError /\ outcome.message \in OnlyInExceptions
          THEN LET mine == outcome.exc
                   other == Counterpart(call, resp).outcome.exc
               IN IF call.op \in TalentlmsOps
                  THEN mine = "TalentLMSError" /\ other = exc_map[outcome.message]
                  ELSE mine = exc_map[outcome.message] /\ other = "TalentLMSError"
          ELSE outcome.exc = Counterpart(call, resp).outcome.exc

\* get of talentlms.py raised TalentLMSError for a message that _get of
\* api.py raises UnitDoesNotExistError for
C30_Witness ==
    /\ CommonInput
    /\ ServerError
    /\ call.op = "get"
    /\ outcome.message = "The requested unit does not exist"
    /\ outcome.exc = "TalentLMSError"
    /\ Counterpart(call, resp).outcome.exc = "UnitDoesNotExistError"
    /\ sent = Counterpart(call, resp).sent

====
